---- MODULE Spec2Model ----
(***************************************************************************)
(* Model of the progressive-complexity demo: the in-memory product store   *)
(* and query engine (src/lib/store.ts, src/lib/api-utils.ts), the          *)
(* table-header search/sort controller (TableHeader.ts) and the            *)
(* optimistic cell editing helpers of page-utils.ts.                       *)
(*                                                                         *)
(* Units: prices and money amounts are integers in thousandths of a        *)
(* currency unit (120.00 is 120000); time is counted in steps of 100 ms.   *)
(* Strings that are searched or compared are sequences of one-character    *)
(* strings.                                                                *)
(***************************************************************************)
EXTENDS Integers, Sequences, FiniteSets, TLC

VARIABLES
  db,               \* store.ts `db`: the sequence of products
  qpar,             \* parameters of the getTableData call
  qres,             \* result of the getTableData call (NULL before it)
  ppar,             \* parameters of the getProducts call
  pres,             \* result of the getProducts call (NULL before it)
  ucall,            \* the last call of the field-update route, or of a
                    \* function that is checked alone, as received
  ures,             \* the answer to that call
  ucount,           \* number of calls of the route so far
  scall,            \* the last call of a function of store.ts, as made
  sret,             \* what that call returned or threw
  gone,             \* the ids deleteProduct has removed so far
  hdr,              \* the live table-header instance of every column
  orphans,          \* replaced table-header instances that still own a timer
  clock,            \* the browser's timer table (pending debounce timers)
  xhrs,             \* requests issued through htmx.ajax and not yet resolved
  view,             \* id of the request whose response #table-wrapper shows
  thFocus,          \* window.__th_focus
  focus,            \* column whose search input is document.activeElement
  issued,           \* number of header requests issued so far
  keys,             \* number of timers handed out by window.setTimeout
  insts,            \* number of table-header instances created so far
  lastReq,          \* the most recently issued header request, as issued
  dom,              \* the rendered rows: attributes, cells, inputs
  totalsTag,        \* optimistic-update class on #total-amount / #total-items
  totalsText,       \* the totals the page displays
  lastRequestInput, \* page-utils.ts `lastRequestInput`
  lastFocus,        \* window.__lastFocus
  net,              \* field-update requests in flight
  rtimers,          \* pending setTimeout callbacks of handleResponseError
  nreq,             \* number of field-update requests issued so far
  lastEvent         \* the last client event of the edit flow

vars == << db, qpar, qres, ppar, pres, ucall, ures, ucount, scall, sret, gone, hdr, orphans, clock, xhrs, view, thFocus, focus,
           issued, keys, insts, lastReq, dom, totalsTag, totalsText,
           lastRequestInput, lastFocus, net, rtimers, nreq, lastEvent >>

queryVars == << qpar, qres, ppar, pres >>
updateVars == << ucall, ures, ucount, scall, sret, gone >>
headerVars == << hdr, orphans, clock, xhrs, view, thFocus, focus, issued, keys,
                 insts, lastReq >>
editVars == << dom, totalsTag, totalsText, lastRequestInput, lastFocus, net,
               rtimers, nreq, lastEvent >>

NULL == [null |-> TRUE]

(***************************************************************************)
(* Bounds of the model.                                                    *)
(***************************************************************************)
MaxRows == 3        \* products seeded into the store
MaxPage == 2        \* largest page number requested
MaxPageSize == 2    \* largest page size requested
MaxIssued == 2      \* header requests issued in one behaviour
MaxKeys == 2        \* search keystrokes in one behaviour
MaxEdits == 2       \* field-update requests in one behaviour
MaxUpdates == 2     \* calls of the field-update route in one behaviour

(***************************************************************************)
(* Strings.                                                                *)
(***************************************************************************)
\* String.prototype.toLowerCase on the characters the model uses.
toLowerCase(s) ==
  LET LowerChar(c) == CASE c = "A" -> "a"
                        [] c = "B" -> "b"
                        [] c = "L" -> "l"
                        [] c = "R" -> "r"
                        [] OTHER -> c
  IN [i \in 1..Len(s) |-> LowerChar(s[i])]

\* String.prototype.includes: t occurs in s as a contiguous substring.
includes(s, t) ==
  \E k \in 0..(Len(s) - Len(t)) : \A i \in 1..Len(t) : s[k + i] = t[i]

\* UTF-16 code unit order of the characters the model uses.
CharCode(c) ==
  CASE c = "#" -> 35
    [] c = "1" -> 49
    [] c = "2" -> 50
    [] c = "3" -> 51
    [] c = "4" -> 52
    [] c = "A" -> 65
    [] c = "B" -> 66
    [] c = "E" -> 69
    [] c = "L" -> 76
    [] c = "R" -> 82
    [] c = "a" -> 97
    [] c = "b" -> 98
    [] c = "l" -> 108
    [] c = "o" -> 111
    [] c = "r" -> 114
    [] OTHER -> 122

\* JavaScript's < on two strings: lexicographic by code unit.
RECURSIVE StrLess(_, _)
StrLess(a, b) ==
  IF b = << >> THEN FALSE
  ELSE IF a = << >> THEN TRUE
  ELSE IF CharCode(Head(a)) < CharCode(Head(b)) THEN TRUE
  ELSE IF CharCode(Head(a)) > CharCode(Head(b)) THEN FALSE
  ELSE StrLess(Tail(a), Tail(b))

(***************************************************************************)
(* Numbers.                                                                *)
(***************************************************************************)
\* Number(value) of a text that is no number.  Every comparison with it
\* is false.
NaN == -2000000000
isNaN(v) == v = NaN

(***************************************************************************)
(* Rounding: +x.toFixed(2) on an amount num/den thousandths, returned in   *)
(* thousandths (a multiple of 10).                                         *)
(***************************************************************************)
toFixed2(num, den) ==
  IF num = NaN THEN NaN ELSE ((2 * num + 10 * den) \div (20 * den)) * 10

(***************************************************************************)
(* The record store (store.ts).                                            *)
(***************************************************************************)
Names == << <<"L", "a">>, <<"a", "B">>, <<"R", "o">> >>
Digits == << "1", "2", "3", "4" >>
\* Pairs of a basePrice and a quantity the random draws can give: the
\* cheaper product has the larger subtotal.
SeedStock == { <<50000, 3>>, <<120000, 1>> }

\* names[i % names.length] + " #" + i
SeedName(i) == Names[(i % Len(Names)) + 1] \o << "#", Digits[i] >>

\* The products seedProducts() can return, for a store of n products.
seedProducts(n) ==
  { [i \in 1..n |-> [id |-> i, name |-> SeedName(i), price |-> pq[i][1],
                     quantity |-> pq[i][2], category |-> <<"E">>]] :
      pq \in [1..n -> SeedStock] }

SortFields == {"id", "name", "price", "quantity", "category", "description",
               "subtotal"}
UNDEFINED == "undefined"    \* an absent string-valued parameter
NoTerm == << >>             \* searchTerm undefined or "": both are falsy

\* aVal !== undefined, for aVal = a[sort] or the computed subtotal
HasKey(p, sort) == sort = "subtotal" \/ sort \in DOMAIN p

\* a[sort as keyof Product], or the computed subtotal.
SortKey(p, sort) ==
  IF sort = "subtotal" THEN p.price * p.quantity ELSE p[sort]

Less(x, y, sort) ==
  IF sort \in {"name", "category", "description"} THEN StrLess(x, y)
  ELSE x < y

\* The comparator without its sortDir: always the ascending answers.
compareRows_asc(a, b, sort, sortDir) ==
  IF ~HasKey(a, sort) /\ ~HasKey(b, sort) THEN 0
  ELSE IF ~HasKey(a, sort) THEN -1
  ELSE IF ~HasKey(b, sort) THEN 1
  ELSE IF Less(SortKey(a, sort), SortKey(b, sort), sort) THEN -1
  ELSE IF Less(SortKey(b, sort), SortKey(a, sort), sort) THEN 1
  ELSE 0

\* The comparator handed to rows.sort in getProducts.
compareRows(a, b, sort, sortDir) ==
  IF ~HasKey(a, sort) /\ ~HasKey(b, sort) THEN 0
  ELSE IF ~HasKey(a, sort) THEN (IF sortDir = "asc" THEN -1 ELSE 1)
  ELSE IF ~HasKey(b, sort) THEN (IF sortDir = "asc" THEN 1 ELSE -1)
  ELSE IF Less(SortKey(a, sort), SortKey(b, sort), sort)
       THEN (IF sortDir = "asc" THEN -1 ELSE 1)
  ELSE IF Less(SortKey(b, sort), SortKey(a, sort), sort)
       THEN (IF sortDir = "asc" THEN 1 ELSE -1)
  ELSE 0

\* Array.prototype.sort is stable: insert x after the last element that
\* does not compare greater than it.
RECURSIVE InsertSorted(_, _, _, _)
InsertSorted(x, s, sort, sortDir) ==
  IF s = << >> THEN << x >>
  ELSE IF compareRows(x, Head(s), sort, sortDir) < 0 THEN << x >> \o s
  ELSE << Head(s) >> \o InsertSorted(x, Tail(s), sort, sortDir)

RECURSIVE SortRows(_, _, _)
SortRows(s, sort, sortDir) ==
  IF s = << >> THEN << >>
  ELSE InsertSorted(s[Len(s)], SortRows(SubSeq(s, 1, Len(s) - 1), sort, sortDir),
                    sort, sortDir)

\* rows.filter((p) => p.name.toLowerCase().includes(searchTerm.toLowerCase()))
FilterRows(rows, searchField, searchTerm) ==
  IF searchField # UNDEFINED /\ searchTerm # NoTerm
  THEN SelectSeq(rows, LAMBDA p :
                   includes(toLowerCase(p.name), toLowerCase(searchTerm)))
  ELSE rows

\* A slice that falls back to the whole array when start is past its end.
Slice_whole(rows, start, end) ==
  IF start >= Len(rows) THEN rows
  ELSE SubSeq(rows, start + 1, IF end > Len(rows) THEN Len(rows) ELSE end)

\* rows.slice(start, start + pageSize - 1)
Slice_short(rows, start, end) ==
  IF start >= Len(rows) THEN << >>
  ELSE SubSeq(rows, start + 1, IF end - 1 > Len(rows) THEN Len(rows)
                               ELSE end - 1)

\* rows.slice(start, start + pageSize)
Slice(rows, start, end) ==
  IF start >= Len(rows) THEN << >>
  ELSE SubSeq(rows, start + 1, IF end > Len(rows) THEN Len(rows) ELSE end)

\* let rows = db: the array that is sorted is the store itself.
Spread_shared(store) == [rows |-> store, shared |-> TRUE]

\* let rows = [...db]: a new array of the products of the store.
Spread(store) == [rows |-> store, shared |-> FALSE]

\* The store after getProducts(params): rows.sort sorts its array in
\* place, rows.filter makes a new array, so the store is reordered only
\* if rows is still the array of the store when it is sorted.
dbAfterGetProducts(store, params) ==
  LET r == Spread(store)
      filtered == params.searchField # UNDEFINED /\ params.searchTerm # NoTerm
  IN IF r.shared /\ ~filtered
     THEN SortRows(r.rows, params.sort, params.sortDir)
     ELSE store

getProducts(store, params) ==
  LET rows == SortRows(FilterRows(store, params.searchField, params.searchTerm),
                       params.sort, params.sortDir)
      start == (params.page - 1) * params.pageSize
  IN [data |-> Slice(rows, start, start + params.pageSize),
      total |-> Len(rows)]

\* JavaScript's a + b and a * b on numbers
Add(a, b) == IF a = NaN \/ b = NaN THEN NaN ELSE a + b
Mul(a, b) == IF a = NaN \/ b = NaN THEN NaN ELSE a * b

\* nums.reduce((sum, x) => sum + x, 0)
RECURSIVE Reduce(_)
Reduce(nums) ==
  IF nums = << >> THEN 0 ELSE Add(Head(nums), Reduce(Tail(nums)))

getTotals(rows) ==
  LET totalQuantity == Reduce([i \in 1..Len(rows) |-> rows[i].quantity])
      grandTotal ==
        Reduce([i \in 1..Len(rows) |-> Mul(rows[i].quantity, rows[i].price)])
      totalPrice == Reduce([i \in 1..Len(rows) |-> rows[i].price])
  IN [totalPrice |-> toFixed2(totalPrice, 1),
      totalQuantity |-> totalQuantity,
      grandTotal |-> toFixed2(grandTotal, 1),
      averagePrice |-> IF Len(rows) > 0 THEN toFixed2(totalPrice, Len(rows))
                       ELSE 0,
      productCount |-> Len(rows)]

getAllTotals(store) == getTotals(store)

\* Math.floor in the place of Math.ceil.
Ceil_floor(a, b) == a \div b

\* Math.ceil(a / b) for a >= 0, b >= 1
Ceil(a, b) == (a + b - 1) \div b

(***************************************************************************)
(* The query endpoint (api-utils.ts).                                      *)
(***************************************************************************)
\* getTableData with the totals taken over the rows of the page.
getTableData_pageTotals(store, params) ==
  LET res == getProducts(store,
               [page |-> params.page, pageSize |-> params.pageSize,
                sort |-> IF params.sort = "subtotal" THEN "price"
                         ELSE params.sort,
                sortDir |-> params.sortDir,
                searchField |-> IF params.searchField = UNDEFINED THEN "name"
                                ELSE params.searchField,
                searchTerm |-> IF params.searchTerm = << >> THEN NoTerm
                               ELSE params.searchTerm])
      totalPages == Ceil(res.total, params.pageSize)
  IN [data |-> res.data, total |-> res.total,
      totals |-> getTotals(res.data),
      pagination |-> [page |-> params.page, limit |-> params.pageSize,
                      total |-> res.total, totalPages |-> totalPages,
                      hasNext |-> params.page < totalPages,
                      hasPrev |-> params.page > 1]]

\* getTableData with the totals taken over the rows the search leaves.
getTableData_filteredTotals(store, params) ==
  LET res == getProducts(store,
               [page |-> params.page, pageSize |-> params.pageSize,
                sort |-> IF params.sort = "subtotal" THEN "price"
                         ELSE params.sort,
                sortDir |-> params.sortDir,
                searchField |-> IF params.searchField = UNDEFINED THEN "name"
                                ELSE params.searchField,
                searchTerm |-> IF params.searchTerm = << >> THEN NoTerm
                               ELSE params.searchTerm])
      totalPages == Ceil(res.total, params.pageSize)
  IN [data |-> res.data, total |-> res.total,
      totals |-> getTotals(FilterRows(store, "name",
                    IF params.searchTerm = << >> THEN NoTerm
                    ELSE params.searchTerm)),
      pagination |-> [page |-> params.page, limit |-> params.pageSize,
                      total |-> res.total, totalPages |-> totalPages,
                      hasNext |-> params.page < totalPages,
                      hasPrev |-> params.page > 1]]

getTableData(store, params) ==
  LET res == getProducts(store,
               [page |-> params.page,
                pageSize |-> params.pageSize,
                sort |-> IF params.sort = "subtotal" THEN "price"
                         ELSE params.sort,
                sortDir |-> params.sortDir,
                searchField |-> IF params.searchField = UNDEFINED THEN "name"
                                ELSE params.searchField,
                searchTerm |-> IF params.searchTerm = << >> THEN NoTerm
                               ELSE params.searchTerm])
      totalPages == Ceil(res.total, params.pageSize)
  IN [data |-> res.data,
      total |-> res.total,
      totals |-> getAllTotals(store),
      pagination |-> [page |-> params.page,
                      limit |-> params.pageSize,
                      total |-> res.total,
                      totalPages |-> totalPages,
                      hasNext |-> params.page < totalPages,
                      hasPrev |-> params.page > 1]]

SearchTerms == { << >>, <<"l">>, <<"A">>, <<"b", "#">> }

ApiParamsSet ==
  [page : 1..MaxPage, pageSize : 1..MaxPageSize, sort : SortFields,
   sortDir : {"asc", "desc"}, searchTerm : SearchTerms,
   searchField : {"name", "category", UNDEFINED}]

(***************************************************************************)
(* The table-header controller (TableHeader.ts).                           *)
(***************************************************************************)
DEBOUNCE_DELAY == 3     \* 300 ms, in steps of 100 ms
DEFAULT_PAGE == 1
DEFAULT_PAGE_SIZE == 10

NoCaret == -1           \* caretPos null
NoFocus == "none"       \* no search input has the focus
Cols == {"name", "price"}      \* one <table-header> per column
Searchable == {"name"}         \* the headers rendered with a search input
InputValues == { <<"l">>, <<"l", "a">> }    \* values typed into a search input

\* A table-header instance as constructed from the attributes of the markup.
\* typed is the value of its search input. For stating properties it also
\* records the time since its last keystroke (keyAge, capped at the delay),
\* whether it had one (keyed), how many keystrokes followed each other by
\* less than the delay (burst), how many debounce requests it issued since
\* the last keystroke (fired) and whether Enter was pressed since (entered).
NewHeader(i, f, by, dir, term) ==
  [iid |-> i, field |-> f, sortBy |-> by, sortDir |-> dir, searchTerm |-> term,
   debounceTimer |-> 0, currentRequest |-> 0, typed |-> term,
   keyAge |-> DEBOUNCE_DELAY, keyed |-> FALSE, burst |-> 0, fired |-> 0,
   entered |-> FALSE]

ColIndex(c) == IF c = "name" THEN 1 ELSE 2

\* buildUrl with the parameters of a search request (onSearchKeyUp,
\* onSearchInput): the URL is kept as the record of its query parameters.
SearchUrl(h) ==
  [searchTerm |-> h.searchTerm, page |-> DEFAULT_PAGE,
   limit |-> DEFAULT_PAGE_SIZE, sortBy |-> h.sortBy, sortOrder |-> h.sortDir]

getSortUrl(h) ==
  LET dir == IF h.sortBy = h.field /\ h.sortDir = "asc" THEN "desc" ELSE "asc"
  IN [sortBy |-> h.field, sortOrder |-> dir, page |-> DEFAULT_PAGE,
      limit |-> DEFAULT_PAGE_SIZE, searchTerm |-> h.searchTerm]

\* this.currentRequest.abort(): the instance's earlier request, if it is
\* still unresolved, is taken off the network.
AbortCurrent_none(h, xs) == xs

AbortCurrent(h, xs) == { r \in xs : r.rid # h.currentRequest }

\* onSearchInput: if (this.debounceTimer) clearTimeout(this.debounceTimer)
InputClear_keep(h, timers) == timers

InputClear(h, timers) ==
  IF h.debounceTimer # 0 THEN { t \in timers : t.id # h.debounceTimer }
  ELSE timers

\* onSearchKeyUp: if (this.debounceTimer) { clearTimeout(...); ... = null }
KeyUpClear_keep(h, timers) == timers

KeyUpClear(h, timers) ==
  IF h.debounceTimer # 0 THEN { t \in timers : t.id # h.debounceTimer }
  ELSE timers

\* The request htmx.ajax("GET", path, ...) puts on the network.
NewRequest(h, path, src) ==
  [rid |-> issued + 1, iid |-> h.iid, field |-> h.field, path |-> path,
   src |-> src, stale |-> FALSE]

\* What lastReq keeps of a request at the moment it is issued.
Issued(h, path, src) ==
  [rid |-> issued + 1, iid |-> h.iid, src |-> src, term |-> path.searchTerm,
   field |-> h.field, order |-> path.sortOrder, typed |-> h.typed, keyAge |-> h.keyAge, keyed |-> h.keyed,
   nth |-> h.fired + 1, entered |-> h.entered, burst |-> h.burst,
   pending |-> h.debounceTimer # 0,
   others |-> { r.rid : r \in AbortCurrent(h, xhrs) }]

\* updateTable(path, caretPos) of instance h: the network after the call.
updateTable(h, path, src) ==
  AbortCurrent(h, xhrs) \cup { NewRequest(h, path, src) }

\* A replaced instance with no timer left can do nothing more.
Collect(os, timers) == { o \in os : \E t \in timers : t.iid = o.iid }

\* restoreFocusFromGlobal(), run by updated() after a property change.
restoreFocusFromGlobal(h, tok) ==
  IF tok = NULL \/ tok.field # h.field THEN tok ELSE NULL

\* The end of the timer callback: this.debounceTimer = null
TimerDone_keep(h) == h

TimerDone(h) == [h EXCEPT !.debounceTimer = 0]

\* onSearchInput: a keystroke that leaves value v in the search input of
\* the live header of column c.
onSearchInput(c, v) ==
  LET h == hdr[c]
      timers == InputClear(h, clock)
      t == [id |-> keys + 1, iid |-> h.iid, left |-> DEBOUNCE_DELAY]
  IN /\ c \in Searchable
     /\ keys < MaxKeys
     /\ v # h.typed
     /\ hdr' = [hdr EXCEPT ![c] =
                  [h EXCEPT !.searchTerm = v, !.typed = v,
                            !.debounceTimer = keys + 1,
                            !.keyAge = 0, !.keyed = TRUE, !.fired = 0,
                            !.burst = IF h.keyed /\ h.keyAge < DEBOUNCE_DELAY
                                      THEN h.burst + 1 ELSE 1,
                            !.entered = FALSE]]
     /\ clock' = timers \cup {t}
     /\ keys' = keys + 1
     /\ thFocus' = restoreFocusFromGlobal(h, thFocus)
     /\ focus' = c
     /\ UNCHANGED << orphans, xhrs, view, issued, insts, lastReq >>
  /\ UNCHANGED << db, queryVars, updateVars, editVars >>

\* The callback of the debounce timer t fires on its instance h.
DebounceFire(t) ==
  \E h \in {hdr[c] : c \in Cols} \cup orphans :
    /\ t \in clock
    /\ t.left = 0
    /\ h.iid = t.iid
    /\ issued < MaxIssued
    /\ LET path == SearchUrl(h)
       IN /\ xhrs' = updateTable(h, path, "debounce")
          /\ lastReq' = Issued(h, path, "debounce")
          /\ thFocus' = [field |-> h.field, caretPos |-> Len(h.typed)]
          /\ clock' = clock \ {t}
          /\ LET h1 == [TimerDone(h) EXCEPT !.currentRequest = issued + 1,
                                            !.fired = h.fired + 1]
             IN IF hdr[h.field].iid = h.iid
                THEN /\ hdr' = [hdr EXCEPT ![h.field] = h1]
                     /\ orphans' = Collect(orphans, clock')
                ELSE /\ orphans' = Collect((orphans \ {h}) \cup {h1}, clock')
                     /\ hdr' = hdr
    /\ issued' = issued + 1
    /\ UNCHANGED << view, focus, keys, insts >>
  /\ UNCHANGED << db, queryVars, updateVars, editVars >>

\* onSearchKeyUp with key Enter, in the search input of column c.
onSearchKeyUp(c) ==
  LET h == hdr[c]
      path == SearchUrl(h)
  IN /\ c \in Searchable
     /\ issued < MaxIssued
     /\ clock' = KeyUpClear(h, clock)
     /\ xhrs' = updateTable(h, path, "enter")
     /\ lastReq' = Issued(h, path, "enter")
     /\ thFocus' = [field |-> h.field,
                    caretPos |-> IF focus = c THEN Len(h.typed) ELSE NoCaret]
     /\ hdr' = [hdr EXCEPT ![c] = [h EXCEPT !.debounceTimer = 0,
                                           !.currentRequest = issued + 1,
                                           !.entered = TRUE]]
     /\ issued' = issued + 1
     /\ focus' = c
     /\ UNCHANGED << orphans, view, keys, insts >>
  /\ UNCHANGED << db, queryVars, updateVars, editVars >>

\* onSort: a click on the sort link of column c.
onSort(c) ==
  LET h == hdr[c]
      path == getSortUrl(h)
  IN /\ issued < MaxIssued
     /\ xhrs' = updateTable(h, path, "sort")
     /\ lastReq' = Issued(h, path, "sort")
     /\ thFocus' = [field |-> h.field,
                    caretPos |-> IF c \in Searchable THEN Len(h.typed)
                                 ELSE NoCaret]
     /\ hdr' = [hdr EXCEPT ![c] = [h EXCEPT !.currentRequest = issued + 1]]
     /\ issued' = issued + 1
     /\ UNCHANGED << orphans, clock, view, focus, keys, insts >>
  /\ UNCHANGED << db, queryVars, updateVars, editVars >>

\* 100 ms pass.
Tick ==
  /\ \/ \E t \in clock : t.left > 0
     \/ \E h \in {hdr[c] : c \in Cols} \cup orphans :
          h.keyAge < DEBOUNCE_DELAY
  /\ clock' = { [t EXCEPT !.left = IF t.left > 0 THEN t.left - 1 ELSE 0] :
                t \in clock }
  /\ hdr' = [c \in Cols |->
               [hdr[c] EXCEPT !.keyAge = IF @ < DEBOUNCE_DELAY THEN @ + 1
                                         ELSE @]]
  /\ orphans' = { [o EXCEPT !.keyAge = IF @ < DEBOUNCE_DELAY THEN @ + 1
                                       ELSE @] : o \in orphans }
  /\ UNCHANGED << xhrs, view, thFocus, focus, issued, keys, insts, lastReq >>
  /\ UNCHANGED << db, queryVars, updateVars, editVars >>

\* The response of request r arrives and htmx swaps #table-wrapper: the
\* headers are rendered anew from the parameters of the request and the
\* replaced instances keep only their pending timers.
SwapResponse(r) ==
  /\ r \in xhrs
  /\ view' = r.rid
  /\ xhrs' = { [x EXCEPT !.stale = TRUE] : x \in xhrs \ {r} }
  /\ hdr' = [c \in Cols |->
               NewHeader(insts + ColIndex(c), c, r.path.sortBy,
                         r.path.sortOrder, r.path.searchTerm)]
  /\ orphans' = Collect(orphans \cup {hdr[c] : c \in Cols}, clock)
  /\ insts' = insts + Cardinality(Cols)
  /\ thFocus' = NULL
  /\ focus' = IF thFocus # NULL /\ thFocus.field \in Searchable
              THEN thFocus.field ELSE NoFocus
  /\ UNCHANGED << clock, issued, keys, lastReq >>
  /\ UNCHANGED << db, queryVars, updateVars, editVars >>

\* The response of a request whose target element was replaced by an
\* earlier swap: htmx may fail to swap it into the detached target.
DropResponse(r) ==
  /\ r \in xhrs
  /\ r.stale
  /\ xhrs' = xhrs \ {r}
  /\ UNCHANGED << hdr, orphans, clock, view, thFocus, focus, issued, keys,
                  insts, lastReq >>
  /\ UNCHANGED << db, queryVars, updateVars, editVars >>

HeaderInit ==
  /\ hdr = [c \in Cols |-> NewHeader(ColIndex(c), c, "id", "asc", << >>)]
  /\ orphans = {}
  /\ clock = {}
  /\ xhrs = {}
  /\ view = 0
  /\ thFocus = NULL
  /\ focus = NoFocus
  /\ issued = 0
  /\ keys = 0
  /\ insts = Cardinality(Cols)
  /\ lastReq = NULL

HeaderNext ==
  \/ \E c \in Cols, v \in InputValues : onSearchInput(c, v)
  \/ \E t \in clock : DebounceFire(t)
  \/ \E c \in Cols : onSearchKeyUp(c)
  \/ \E c \in Cols : onSort(c)
  \/ Tick
  \/ \E r \in xhrs : SwapResponse(r)
  \/ \E r \in xhrs : DropResponse(r)

(***************************************************************************)
(* The mutation service: updateProductField (store.ts) behind the          *)
(* field-update route.                                                     *)
(***************************************************************************)
FORBIDDEN_PRICE == 99990        \* 99.99
MIN_PRICE == 0
MAX_PRICE == 999999990          \* 999999.99
MIN_QUANTITY == 0
MAX_QUANTITY == 999999

Fields == {"price", "quantity"}

\* JavaScript's a < b on numbers
Lt(a, b) == a # NaN /\ b # NaN /\ a < b

\* The number n as the value of a request: request values are counted in
\* thousandths, for a price and for a quantity alike.
Num(n) == n * 1000

\* Math.floor that leaves the thousandths in place.
Floor_keep(value) == value

\* Math.floor of a request value, in units.
Floor(value) == value \div 1000

\* Math.max(a, b)
Max(a, b) == IF a >= b THEN a ELSE b

\* isValidProduct(product), for the fields an update can change
isValidProduct(p) ==
  /\ p.price # NaN /\ p.price >= 0
  /\ p.quantity # NaN /\ p.quantity >= 0

\* db.find((p) => p.id === id): the index of the product, 0 if there is none
FindIndex(store, id) ==
  IF \E i \in 1..Len(store) : store[i].id = id
  THEN CHOOSE i \in 1..Len(store) :
         store[i].id = id /\ \A j \in 1..(i - 1) : store[j].id # id
  ELSE 0

\* An assignment that reaches every product of the store.
Assign_all(store, i, field, v) ==
  [j \in 1..Len(store) |-> [store[j] EXCEPT ![field] = v]]

\* product[field] = v on the product found at index i of the store.
Assign(store, i, field, v) == [store EXCEPT ![i][field] = v]

\* updateProductField(id, field, value): ok is FALSE when it throws, error
\* tells which throw, store is the store after the call.  The stored price
\* is in thousandths, the stored quantity in units.
updateProductField(store, id, field, value) ==
  LET i == FindIndex(store, id)
  IN IF i = 0 THEN [ok |-> FALSE, store |-> store, error |-> "notfound"]
     ELSE IF field = "price"
     THEN IF Lt(value, MIN_PRICE) \/ Lt(MAX_PRICE, value)
          THEN [ok |-> FALSE, store |-> store, error |-> "range"]
          ELSE LET st == Assign(store, i, "price", value)
               IN [ok |-> isValidProduct(st[i]), store |-> st,
                   error |-> IF isValidProduct(st[i]) THEN "none"
                             ELSE "invalid"]
     ELSE IF Lt(value, Num(MIN_QUANTITY)) \/ Lt(Num(MAX_QUANTITY), value)
          THEN [ok |-> FALSE, store |-> store, error |-> "range"]
          ELSE LET st == Assign(store, i, "quantity",
                                IF isNaN(value) THEN NaN
                                ELSE Max(0, Floor(value)))
               IN [ok |-> isValidProduct(st[i]), store |-> st,
                   error |-> IF isValidProduct(st[i]) THEN "none"
                             ELSE "invalid"]

\* db.splice(index, 1) that removes nothing.
Splice_none(store, index) == store

\* db.splice(index) without its count: the rest of the store goes too.
Splice_rest(store, index) == SubSeq(store, 1, index - 1)

\* db.splice(index, 1)
Splice(store, index) ==
  SubSeq(store, 1, index - 1) \o SubSeq(store, index + 1, Len(store))

\* deleteProduct without the check of the index: splice(-1, 1) removes
\* the last product.
deleteProduct_unchecked(store, id) ==
  LET i == FindIndex(store, id)
  IN IF i = 0 THEN [ok |-> TRUE, store |-> Splice(store, Len(store)),
                    error |-> "none"]
     ELSE [ok |-> TRUE, store |-> Splice(store, i), error |-> "none"]

\* deleteProduct(id): ok is FALSE when it throws.
deleteProduct(store, id) ==
  LET i == FindIndex(store, id)
  IN IF i = 0 THEN [ok |-> FALSE, store |-> store, error |-> "notfound"]
     ELSE [ok |-> TRUE, store |-> Splice(store, i), error |-> "none"]

\* getProductById(id): the product in a sequence, empty for undefined.
getProductById(store, id) ==
  LET i == FindIndex(store, id)
  IN IF i = 0 THEN << >> ELSE << store[i] >>

\* validateNumericInput without its isNaN check.
validateNumericInput_noNaN(value, min) == ~Lt(value, min)

\* validateNumericInput(value, fieldName, 0): TRUE when it returns the
\* number, FALSE when it returns the 400 response.
validateNumericInput(value, min) == ~(isNaN(value) \/ Lt(value, min))

\* The field-update route without its check of the forbidden price.
Endpoint_noSentinel(store, id, field, value) ==
  IF ~validateNumericInput(value, 0)
  THEN [status |-> 400, store |-> store, error |-> "validation"]
  ELSE LET u == updateProductField(store, id, field, value)
       IN IF u.ok THEN [status |-> 200, store |-> u.store, error |-> "none"]
          ELSE [status |-> 500, store |-> u.store, error |-> u.error]

\* The field-update route: the status of its response, the failure behind
\* it and the store after.
Endpoint(store, id, field, value) ==
  IF ~validateNumericInput(value, 0)
  THEN [status |-> 400, store |-> store, error |-> "validation"]
  ELSE IF field = "price" /\ value = FORBIDDEN_PRICE
  THEN [status |-> 500, store |-> store, error |-> "simulated"]
  ELSE LET u == updateProductField(store, id, field, value)
       IN IF u.ok THEN [status |-> 200, store |-> u.store, error |-> "none"]
          ELSE [status |-> 500, store |-> u.store, error |-> u.error]

(***************************************************************************)
(* The rendered table and the optimistic cell editing of page-utils.ts.    *)
(***************************************************************************)
Money(cents) == [kind |-> "money", n |-> cents]
ErrorText == [kind |-> "error", n |-> 0]

\* formatCurrency(value): the amount in cents, rounded half away from zero.
formatCurrency(x) ==
  IF x >= 0 THEN Money((x + 5) \div 10) ELSE Money(0 - ((5 - x) \div 10))

\* The text a cell shows for value v of field f.
CellText(f, v) ==
  IF f = "price" THEN formatCurrency(v) ELSE [kind |-> "plain", n |-> v]

\* The row markup the server renders for product p.
RenderRow(p) ==
  [dataPrice |-> p.price,
   dataQuantity |-> p.quantity,
   sub |-> [text |-> formatCurrency(p.price * p.quantity), opt |-> FALSE],
   cell |-> [f \in Fields |->
               [text |-> CellText(f, p[f]), opt |-> FALSE, err |-> FALSE,
                editing |-> FALSE, defaultValue |-> p[f], value |-> p[f]]]]

\* The table fragment and the totals the server renders from the store.
Render(store) ==
  [rows |-> [id \in { store[i].id : i \in 1..Len(store) } |->
               RenderRow(store[FindIndex(store, id)])],
   totals |-> getAllTotals(store)]

PriceInputs == {120000, FORBIDDEN_PRICE, -1000}
QuantityInputs == {7}
Inputs(f) == IF f = "price" THEN PriceInputs ELSE QuantityInputs

\* What the user has typed into an input when Escape is pressed.
Typed(f) == IF f = "price" THEN {120000} ELSE QuantityInputs

\* What lastEvent holds after a user gesture that sends nothing.
UserEvent == [kind |-> "user", id |-> 0, field |-> "none", rid |-> 0,
              status |-> 0, superseded |-> FALSE]

\* toggleEdit(id, true, field): a click on the view span of a cell.  The
\* click takes the focus, so any input that was being edited has received
\* its blur (Commit) before.
toggleEdit(id, f) ==
  /\ id \in DOMAIN dom
  /\ \A i \in DOMAIN dom, g \in Fields : ~dom[i].cell[g].editing
  /\ dom' = [dom EXCEPT ![id].cell[f].editing = TRUE]
  /\ lastEvent' = UserEvent
  /\ UNCHANGED << db, totalsTag, totalsText, lastRequestInput, lastFocus, net,
                  rtimers, nreq >>
  /\ UNCHANGED << queryVars, updateVars, headerVars >>

\* The rows after handleOptimisticUpdate(input) for the input of cell
\* (id, f) holding value v.
handleOptimisticUpdate(rows, id, f, v) ==
  LET tr == rows[id]
      price == IF f = "price" THEN v ELSE tr.dataPrice
      quantity == IF f = "quantity" THEN v ELSE tr.dataQuantity
  IN [rows EXCEPT ![id].cell[f].text = CellText(f, v),
                  ![id].cell[f].opt = TRUE,
                  ![id].cell[f].editing = FALSE,
                  ![id].cell[f].value = v,
                  ![id].sub = [text |-> formatCurrency(price * quantity),
                               opt |-> TRUE]]

\* exitEditMode(input)
exitEditMode(rows, id, f) == [rows EXCEPT ![id].cell[f].editing = FALSE]

\* A reference to the input element of cell (id, f) as a handler holds it:
\* its value attribute and the data attributes of its row.
InputRef(rows, id, f) ==
  [id |-> id, field |-> f, live |-> TRUE,
   orig |-> rows[id].cell[f].defaultValue,
   trPrice |-> rows[id].dataPrice, trQuantity |-> rows[id].dataQuantity]

\* originalValue !== currentValue that is always true.
Changed_always(c, v) == TRUE

\* originalValue !== currentValue, for the input of cell c holding v
Changed(c, v) == c.defaultValue # v

\* cancelOnEscape without its reset: the input keeps what was typed.
ResetInput_keep(c, v) == v

\* input.value = originalValue in cancelOnEscape: the value of the input
\* of cell c, which held v, after the reset.
ResetInput(c, v) == c.defaultValue

\* What lastEvent holds after the gesture kind on cell (id, f): the
\* request it sent, or the kind alone when it sent none.
Gesture(kind, id, f, rid) ==
  IF rid = 0 THEN [UserEvent EXCEPT !.kind = kind]
  ELSE [kind |-> kind, id |-> id, field |-> f, rid |-> rid, status |-> 0,
        superseded |-> FALSE]

\* The input of the editing cell (id, f) loses the focus while it holds v:
\* handleBlurOptimistic(input), and for a changed value the hx-patch
\* request with the htmx:beforeRequest listener.
Blurred(id, f, v) ==
  /\ id \in DOMAIN dom
  /\ dom[id].cell[f].editing
  /\ IF Changed(dom[id].cell[f], v)
     THEN /\ nreq < MaxEdits
          /\ dom' = handleOptimisticUpdate(dom, id, f, v)
          /\ totalsTag' = TRUE
          /\ lastFocus' = [id |-> id, field |-> f]
          /\ lastRequestInput' = InputRef(dom, id, f)
          /\ net' = net \cup {[rid |-> nreq + 1, id |-> id, field |-> f,
                               value |-> v, phase |-> "sent", status |-> 0,
                               html |-> NULL, stale |-> FALSE]}
          /\ nreq' = nreq + 1
     ELSE /\ dom' = exitEditMode([dom EXCEPT ![id].cell[f].value = v], id, f)
          /\ UNCHANGED << totalsTag, lastFocus, lastRequestInput, net, nreq >>
  /\ UNCHANGED << db, totalsText, rtimers >>
  /\ UNCHANGED << queryVars, updateVars, headerVars >>

\* The user leaves value v in the input of the editing cell (id, f) and
\* commits it, by leaving the input or with Enter.
Commit(id, f, v) ==
  /\ Blurred(id, f, v)
  /\ lastEvent' = Gesture("commit", id, f, IF nreq' = nreq THEN 0 ELSE nreq')

\* cancelOnEscape(evt, input) with key Escape, on the input of cell (id, f)
\* in which the user has typed v: the reset, exitEditMode, and the blur
\* that viewSpan.focus() brings on the input.
cancelOnEscape(id, f, v) ==
  /\ Blurred(id, f, ResetInput(dom[id].cell[f], v))
  /\ lastEvent' = Gesture("escape", id, f, IF nreq' = nreq THEN 0 ELSE nreq')

\* Number(formData.get(field)) for the value v of the input of a cell: the
\* input of a quantity cell holds whole units.
FormNumber(f, v) == IF f = "quantity" THEN Num(v) ELSE v

\* The server handles request r: the store is updated and the response,
\* with the table rendered from the store, is on its way.
Serve(r) ==
  /\ r \in net
  /\ r.phase = "sent"
  /\ LET e == Endpoint(db, r.id, r.field, FormNumber(r.field, r.value))
     IN /\ db' = e.store
        /\ net' = (net \ {r}) \cup
                  {[r EXCEPT !.phase = "answered", !.status = e.status,
                             !.html = IF e.status = 200 THEN Render(e.store)
                                      ELSE NULL]}
  /\ UNCHANGED << dom, totalsTag, totalsText, lastRequestInput, lastFocus,
                  rtimers, nreq, lastEvent >>
  /\ UNCHANGED << queryVars, updateVars, headerVars >>

\* Every element of the table is replaced: what handlers still hold of the
\* old elements is detached from the document.
Detach(ref) == IF ref = NULL THEN NULL ELSE [ref EXCEPT !.live = FALSE]
DetachTimers(ts) == { [t EXCEPT !.inputLive = FALSE, !.viewLive = FALSE] :
                      t \in ts }

\* The rows after the synchronous part of handleResponseError(input, event)
\* for status 500.
handleResponseError(rows, input) ==
  [rows EXCEPT ![input.id].cell[input.field].opt = FALSE,
               ![input.id].cell[input.field].err = TRUE,
               ![input.id].cell[input.field].text = ErrorText,
               ![input.id].sub.opt = FALSE]

\* The first setTimeout callback handleResponseError schedules.
RevertTimer(input, r) ==
  [stage |-> 1, id |-> input.id, field |-> input.field, orig |-> input.orig,
   trPrice |-> input.trPrice, trQuantity |-> input.trQuantity,
   inputLive |-> input.live, viewLive |-> TRUE,
   forId |-> r.id, forField |-> r.field, rid |-> r.rid]

\* The response of request r arrives: the htmx:beforeSwap listeners run and
\* htmx swaps #table-wrapper unless they forbid it.
Deliver(r) ==
  /\ r \in net
  /\ r.phase = "answered"
  /\ net' = { IF r.status < 400 THEN [x EXCEPT !.stale = TRUE] ELSE x :
              x \in net \ {r} }
  /\ lastEvent' = [kind |-> "deliver", id |-> r.id, field |-> r.field,
                   rid |-> r.rid, status |-> r.status,
                   superseded |-> \E x \in net : /\ x.rid > r.rid
                                                /\ x.id = r.id
                                                /\ x.field = r.field]
  /\ IF r.status >= 400
     THEN IF r.status = 500 /\ lastRequestInput # NULL
          THEN /\ dom' = handleResponseError(dom, lastRequestInput)
               /\ totalsTag' = FALSE
               /\ rtimers' = rtimers \cup {RevertTimer(lastRequestInput, r)}
               /\ lastRequestInput' = NULL
               /\ UNCHANGED << totalsText >>
          ELSE UNCHANGED << dom, totalsTag, totalsText, rtimers,
                            lastRequestInput >>
     ELSE /\ dom' = r.html.rows
          /\ totalsText' = r.html.totals
          /\ totalsTag' = FALSE
          /\ rtimers' = DetachTimers(rtimers)
          /\ lastRequestInput' = Detach(lastRequestInput)
  /\ UNCHANGED << db, lastFocus, nreq >>
  /\ UNCHANGED << queryVars, updateVars, headerVars >>

\* The response of a request whose elements were replaced by an earlier
\* swap: htmx may find neither a target to swap nor a path to the listeners.
DeliverDetached(r) ==
  /\ r \in net
  /\ r.phase = "answered"
  /\ r.stale
  /\ net' = net \ {r}
  /\ lastEvent' = [kind |-> "dropped", id |-> r.id, field |-> r.field,
                   rid |-> r.rid, status |-> r.status, superseded |-> FALSE]
  /\ UNCHANGED << db, dom, totalsTag, totalsText, lastRequestInput, lastFocus,
                  rtimers, nreq >>
  /\ UNCHANGED << queryVars, updateVars, headerVars >>

\* The first timeout of handleResponseError fires.
RevertValue(t) ==
  /\ t \in rtimers
  /\ t.stage = 1
  /\ dom' = [dom EXCEPT
               ![t.id].cell[t.field].value =
                  IF t.inputLive THEN t.orig ELSE @,
               ![t.id].cell[t.field].text =
                  IF t.viewLive THEN CellText(t.field, t.orig) ELSE @,
               ![t.id].sub.text =
                  IF t.viewLive THEN formatCurrency(t.trPrice * t.trQuantity)
                  ELSE @]
  /\ rtimers' = (rtimers \ {t}) \cup {[t EXCEPT !.stage = 2]}
  /\ lastEvent' = [kind |-> "revert1", id |-> t.forId, field |-> t.forField,
                   rid |-> t.rid, status |-> 500, superseded |-> FALSE]
  /\ UNCHANGED << db, totalsTag, totalsText, lastRequestInput, lastFocus, net,
                  nreq >>
  /\ UNCHANGED << queryVars, updateVars, headerVars >>

\* The second timeout of handleResponseError fires.
ClearError(t) ==
  /\ t \in rtimers
  /\ t.stage = 2
  /\ dom' = [dom EXCEPT ![t.id].cell[t.field].err =
                           IF t.viewLive THEN FALSE ELSE @]
  /\ rtimers' = rtimers \ {t}
  /\ lastEvent' = [kind |-> "revert2", id |-> t.forId, field |-> t.forField,
                   rid |-> t.rid, status |-> 500, superseded |-> FALSE]
  /\ UNCHANGED << db, totalsTag, totalsText, lastRequestInput, lastFocus, net,
                  nreq >>
  /\ UNCHANGED << queryVars, updateVars, headerVars >>

EditIds == {1, 2}   \* the products on the page

EditInit ==
  /\ db \in { s \in seedProducts(Cardinality(EditIds)) :
               s[1].price < s[2].price }
  /\ dom = Render(db).rows
  /\ totalsText = Render(db).totals
  /\ totalsTag = FALSE
  /\ lastRequestInput = NULL
  /\ lastFocus = NULL
  /\ net = {}
  /\ rtimers = {}
  /\ nreq = 0
  /\ lastEvent = UserEvent

EditNext ==
  \/ \E id \in EditIds, f \in Fields : toggleEdit(id, f)
  \/ \E id \in EditIds, f \in Fields : \E v \in Inputs(f) \cup
         {dom[id].cell[f].defaultValue} : Commit(id, f, v)
  \/ \E id \in EditIds, f \in Fields : \E v \in Typed(f) :
         cancelOnEscape(id, f, v)
  \/ \E r \in net : Serve(r)
  \/ \E r \in net : Deliver(r)
  \/ \E r \in net : DeliverDetached(r)
  \/ \E t \in rtimers : RevertValue(t)
  \/ \E t \in rtimers : ClearError(t)


\* The values the user commits in the cells of a page on which the edits
\* go to the first row; the cells of the other rows are opened and left.
GestureInputs(id, f) ==
  IF id # 1 THEN {}
  ELSE IF f = "price" THEN {120000, FORBIDDEN_PRICE} ELSE QuantityInputs

GestureNext ==
  \/ \E id \in EditIds, f \in Fields : toggleEdit(id, f)
  \/ \E id \in EditIds, f \in Fields : \E v \in GestureInputs(id, f) \cup
         {dom[id].cell[f].defaultValue} : Commit(id, f, v)
  \/ \E id \in EditIds, f \in Fields : \E v \in Typed(f) :
         cancelOnEscape(id, f, v)
  \/ \E r \in net : Serve(r)
  \/ \E r \in net : Deliver(r)
  \/ \E r \in net : DeliverDetached(r)
  \/ \E t \in rtimers : RevertValue(t)
  \/ \E t \in rtimers : ClearError(t)

(***************************************************************************)
(* Specifications.  Each one drives one part of the program and leaves     *)
(* the variables of the other parts at their initial values.               *)
(***************************************************************************)
QueryIdle == qpar = NULL /\ qres = NULL /\ ppar = NULL /\ pres = NULL

EditIdle ==
  /\ dom = << >>
  /\ totalsTag = FALSE
  /\ totalsText = NULL
  /\ lastRequestInput = NULL
  /\ lastFocus = NULL
  /\ net = {}
  /\ rtimers = {}
  /\ nreq = 0
  /\ lastEvent = NULL

StoreIdle == scall = NULL /\ sret = NULL /\ gone = {}

UpdateIdle == ucall = NULL /\ ures = NULL /\ ucount = 0 /\ StoreIdle

\* The query endpoint answers the request with parameters qpar.
Query ==
  /\ qres = NULL
  /\ qres' = getTableData(db, qpar)
  /\ UNCHANGED << db, qpar, ppar, pres, updateVars, headerVars, editVars >>

QueryInit ==
  /\ db \in UNION { seedProducts(n) : n \in 0..MaxRows }
  /\ qpar \in ApiParamsSet
  /\ qres = NULL
  /\ ppar = NULL
  /\ pres = NULL
  /\ UpdateIdle
  /\ HeaderInit
  /\ EditIdle

QueryNext == Query

SpecQuery == QueryInit /\ [][QueryNext]_vars

\* The parameters a caller can hand to getProducts.
GetProductsParamsSet ==
  [page : 1..MaxPage, pageSize : 1..MaxPageSize, sort : SortFields,
   sortDir : {"asc", "desc"}, searchField : {"name", "category", UNDEFINED},
   searchTerm : SearchTerms]

\* getProducts answers the call with parameters ppar.
Products ==
  /\ pres = NULL
  /\ pres' = getProducts(db, ppar)
  /\ UNCHANGED << db, qpar, qres, ppar, updateVars, headerVars, editVars >>

ProductsInit ==
  /\ db \in UNION { seedProducts(n) : n \in 0..MaxRows }
  /\ ppar \in GetProductsParamsSet
  /\ pres = NULL
  /\ qpar = NULL
  /\ qres = NULL
  /\ UpdateIdle
  /\ HeaderInit
  /\ EditIdle

ProductsNext == Products

SpecProducts == ProductsInit /\ [][ProductsNext]_vars

\* The values a request can carry for field f: no number, negative, zero,
\* the ends of the range, above the range; for a price a value with two
\* and with three decimals and the forbidden price, for a quantity whole
\* and fractional values.
RawValues(f) ==
  IF f = "price"
  THEN {NaN, -10, 0, MIN_PRICE, 10005, FORBIDDEN_PRICE, 120000, MAX_PRICE,
        MAX_PRICE + 10}
  ELSE {NaN, Num(-1), -500, Num(MIN_QUANTITY), 500, 2500, Num(7),
        Num(MAX_QUANTITY) - 500, Num(MAX_QUANTITY), Num(MAX_QUANTITY) + 500}

\* The ids a request can name: those of the seeded products and one more.
RequestIds == EditIds \cup {Cardinality(EditIds) + 1}

\* The field-update route handles a request for product id, field f and
\* value v.
PatchField(id, f, v) ==
  /\ ucount < MaxUpdates
  /\ LET e == Endpoint(db, id, f, v)
     IN /\ db' = e.store
        /\ ures' = [status |-> e.status, error |-> e.error]
  /\ ucall' = [id |-> id, field |-> f, value |-> v, before |-> db]
  /\ ucount' = ucount + 1
  /\ UNCHANGED << scall, sret, gone, queryVars, headerVars, editVars >>

UpdateInit ==
  /\ db \in seedProducts(Cardinality(EditIds))
  /\ ucall = NULL
  /\ ures = NULL
  /\ ucount = 0
  /\ StoreIdle
  /\ QueryIdle
  /\ HeaderInit
  /\ EditIdle

UpdateNext ==
  \E id \in RequestIds, f \in Fields : \E v \in RawValues(f) :
    PatchField(id, f, v)

SpecUpdate == UpdateInit /\ [][UpdateNext]_vars

\* The numbers a caller of updateProductField can pass for field f.
StoreValues(f) ==
  IF f = "price" THEN {NaN, -10, 10005, FORBIDDEN_PRICE, MAX_PRICE + 10}
  ELSE {NaN, -500, 2500, Num(MAX_QUANTITY) + 500}

\* The queries the readers of the store make between the writes.
StoreQueries ==
  [page : {DEFAULT_PAGE}, pageSize : {DEFAULT_PAGE_SIZE}, sort : {"id"},
   sortDir : {"asc", "desc"}, searchField : {"name"},
   searchTerm : {NoTerm, <<"A">>}]

\* What a call returned: ok is FALSE when it threw, rows are the products
\* and totals the totals it returned.
Returned(ok, error, rows, totals) ==
  [ok |-> ok, error |-> error, rows |-> rows, totals |-> totals]

\* updateProductField(id, f, v)
UpdateProductField(id, f, v) ==
  /\ LET u == updateProductField(db, id, f, v)
     IN /\ db' = u.store
        /\ sret' = Returned(u.ok, u.error,
                            IF u.ok THEN << u.store[FindIndex(u.store, id)] >>
                            ELSE << >>, NULL)
  /\ scall' = [op |-> "updateProductField", id |-> id, field |-> f,
               value |-> v, before |-> db]
  /\ UNCHANGED << gone, ucall, ures, ucount >>
  /\ UNCHANGED << queryVars, headerVars, editVars >>

\* deleteProduct(id)
DeleteProduct(id) ==
  /\ LET d == deleteProduct(db, id)
     IN /\ db' = d.store
        /\ sret' = Returned(d.ok, d.error, << >>, NULL)
        /\ gone' = IF d.ok THEN gone \cup {id} ELSE gone
  /\ scall' = [op |-> "deleteProduct", id |-> id, field |-> "none",
               value |-> 0, before |-> db]
  /\ UNCHANGED << ucall, ures, ucount >>
  /\ UNCHANGED << queryVars, headerVars, editVars >>

\* getProductById(id)
GetProductById(id) ==
  /\ sret' = Returned(TRUE, "none", getProductById(db, id), NULL)
  /\ scall' = [op |-> "getProductById", id |-> id, field |-> "none",
               value |-> 0, before |-> db]
  /\ UNCHANGED << db, gone, ucall, ures, ucount >>
  /\ UNCHANGED << queryVars, headerVars, editVars >>

\* getProducts(params)
GetProducts(params) ==
  /\ sret' = Returned(TRUE, "none", getProducts(db, params).data, NULL)
  /\ db' = dbAfterGetProducts(db, params)
  /\ scall' = [op |-> "getProducts", id |-> 0, field |-> "none",
               value |-> 0, before |-> db, params |-> params]
  /\ UNCHANGED << gone, ucall, ures, ucount >>
  /\ UNCHANGED << queryVars, headerVars, editVars >>

\* getTableData(params): getProducts, then getAllTotals on the store as
\* getProducts left it.
GetTableData(params) ==
  /\ LET t == getTableData(db, params)
     IN sret' = Returned(TRUE, "none", t.data,
                         getAllTotals(dbAfterGetProducts(db, params)))
  /\ db' = dbAfterGetProducts(db, params)
  /\ scall' = [op |-> "getTableData", id |-> 0, field |-> "none",
               value |-> 0, before |-> db, params |-> params]
  /\ UNCHANGED << gone, ucall, ures, ucount >>
  /\ UNCHANGED << queryVars, headerVars, editVars >>

\* getAllTotals()
GetAllTotals ==
  /\ sret' = Returned(TRUE, "none", << >>, getAllTotals(db))
  /\ scall' = [op |-> "getAllTotals", id |-> 0, field |-> "none",
               value |-> 0, before |-> db]
  /\ UNCHANGED << db, gone, ucall, ures, ucount >>
  /\ UNCHANGED << queryVars, headerVars, editVars >>

StoreInit ==
  /\ db \in seedProducts(Cardinality(EditIds))
  /\ UpdateIdle
  /\ QueryIdle
  /\ HeaderInit
  /\ EditIdle

StoreNext ==
  \/ \E id \in RequestIds, f \in Fields : \E v \in StoreValues(f) :
       UpdateProductField(id, f, v)
  \/ \E id \in RequestIds : DeleteProduct(id)
  \/ \E id \in RequestIds : GetProductById(id)
  \/ \E params \in StoreQueries : GetProducts(params)
  \/ \E params \in StoreQueries : GetTableData(params)
  \/ GetAllTotals

SpecStore == StoreInit /\ [][StoreNext]_vars

\* The stores of n products of type Product in which any product may carry
\* a description, which is optional.
DescribedStores(n) ==
  { [i \in 1..n |-> IF ds[i] = NoTerm THEN s[i]
                    ELSE [id |-> s[i].id, name |-> s[i].name,
                          price |-> s[i].price, quantity |-> s[i].quantity,
                          category |-> s[i].category, description |-> ds[i]]] :
      s \in seedProducts(n), ds \in [1..n -> { <<"a">>, <<"b">>, NoTerm }] }

\* getProducts sorting by the optional field, on a store of Product values.
SortInit ==
  /\ db \in UNION { DescribedStores(n) : n \in 0..MaxRows }
  /\ ppar \in { p \in GetProductsParamsSet : p.sort = "description" }
  /\ pres = NULL
  /\ qpar = NULL
  /\ qres = NULL
  /\ UpdateIdle
  /\ HeaderInit
  /\ EditIdle

SpecSort == SortInit /\ [][ProductsNext]_vars

\* The page as loaded, before any edit, with no header used and no query.
EditPageInit == QueryIdle /\ UpdateIdle /\ HeaderInit /\ EditInit

SpecEdit == EditPageInit /\ [][EditNext]_vars

SpecGesture == EditPageInit /\ [][GestureNext]_vars

\* The table headers as connected, with no edit made and no query.
HeaderPageInit ==
  db = << >> /\ QueryIdle /\ UpdateIdle /\ HeaderInit /\ EditIdle

SpecHeader == HeaderPageInit /\ [][HeaderNext]_vars

(***************************************************************************)
(* ValidationService.validatePrice (validation.ts).                        *)
(***************************************************************************)
ValidationService_MIN_PRICE == 10            \* 0.01
ValidationService_MAX_PRICE == 999999990     \* 999999.99

\* validatePrice without its lower range check.
validatePrice_noMin(value) ==
  LET errors == IF isNaN(value) THEN << "number" >>
                ELSE IF Lt(ValidationService_MAX_PRICE, value) THEN << "max" >>
                ELSE IF value = FORBIDDEN_PRICE THEN << "demo" >>
                ELSE << >>
  IN [isValid |-> Len(errors) = 0, errors |-> errors]

\* validatePrice(value) for the number value parses to (NaN when it does
\* not parse): the errors are named by the check that pushed them.
validatePrice(value) ==
  LET errors == IF isNaN(value) THEN << "number" >>
                ELSE IF Lt(value, ValidationService_MIN_PRICE) THEN << "min" >>
                ELSE IF Lt(ValidationService_MAX_PRICE, value) THEN << "max" >>
                ELSE IF value = FORBIDDEN_PRICE THEN << "demo" >>
                ELSE << >>
  IN [isValid |-> Len(errors) = 0, errors |-> errors]

\* The prices handed to validatePrice: no number, and the values within
\* Around half-cents of zero, of the demo price and of the maximum.
Around == 20
PriceArgs ==
  LET Window(centre) == { centre + 5 * k : k \in (0 - Around)..Around }
  IN {NaN} \cup Window(0) \cup Window(FORBIDDEN_PRICE)
           \cup Window(ValidationService_MAX_PRICE)

\* A caller validates the price v.
ValidatePrice(v) ==
  /\ ucall' = [op |-> "validatePrice", value |-> v]
  /\ ures' = validatePrice(v)
  /\ UNCHANGED << db, ucount, scall, sret, gone, queryVars, headerVars,
                  editVars >>

\* No call made yet, on a server with nothing else going on.
ValidateInit ==
  db = << >> /\ QueryIdle /\ UpdateIdle /\ HeaderInit /\ EditIdle

ValidateNext == \E v \in PriceArgs : ValidatePrice(v)

SpecValidate == ValidateInit /\ [][ValidateNext]_vars

(***************************************************************************)
(* Properties of the optimistic cell editing.                              *)
(***************************************************************************)
\* The product of the store that row id displays.
Stored(id) == db[FindIndex(db, id)]

\* Row id displays what the store holds, with no cell tagged.
RowConverged(id) ==
  /\ \A f \in Fields :
       /\ dom[id].cell[f].text = CellText(f, Stored(id)[f])
       /\ ~dom[id].cell[f].opt
       /\ ~dom[id].cell[f].err
  /\ dom[id].sub.text = formatCurrency(Stored(id).price * Stored(id).quantity)
  /\ ~dom[id].sub.opt

\* C1: once every request has resolved and every revert timer has fired,
\* each displayed price, quantity and subtotal equals the value of the
\* store and no cell is tagged speculative or error.
Convergence ==
  (nreq > 0 /\ net = {} /\ rtimers = {}) =>
    \A id \in DOMAIN dom : RowConverged(id)

\* C2: the response of a commit that a later commit on the same cell has
\* superseded changes nothing of what the table displays.
Supersession ==
  [][ (lastEvent'.kind = "deliver" /\ lastEvent'.superseded
       /\ lastEvent' # lastEvent) => dom' = dom ]_vars

\* C3: a response with status 400 or above is not swapped in and puts the
\* cell of its request on the revert path, the error indicator in place of
\* the value, whether the status is 4xx or 5xx.
FailureForcesRevert ==
  (lastEvent.kind = "deliver" /\ lastEvent.status >= 400) =>
    LET c == dom[lastEvent.id].cell[lastEvent.field]
    IN c.err /\ c.text = ErrorText /\ ~c.opt

\* C4: after a failure response the cell of the request shows the error
\* indicator; after the first delay it shows the original value and the
\* subtotal of its row is the one before the edit; after the second delay
\* the error indicator is gone and the cell is not tagged speculative.
RevertSequence ==
  LET id == lastEvent.id
      f == lastEvent.field
      c == dom[id].cell[f]
      shown == c.text = CellText(f, c.defaultValue)
      sub == dom[id].sub.text =
               formatCurrency(dom[id].dataPrice * dom[id].dataQuantity)
  IN /\ (lastEvent.kind = "deliver" /\ lastEvent.status >= 400) =>
          c.text = ErrorText
     /\ lastEvent.kind = "revert1" => shown /\ sub
     /\ lastEvent.kind = "revert2" => shown /\ sub /\ ~c.err /\ ~c.opt

\* C5: a failure response and the revert that follows it change the display
\* of no cell other than the cell of the failed request, and of no row
\* other than its row.
FailureIsolation ==
  [][ ((lastEvent'.kind = "deliver" /\ lastEvent'.status >= 400)
       \/ lastEvent'.kind \in {"revert1", "revert2"}) =>
        /\ \A id \in DOMAIN dom, f \in Fields :
             (id # lastEvent'.id \/ f # lastEvent'.field) =>
               dom'[id].cell[f] = dom[id].cell[f]
        /\ \A id \in DOMAIN dom :
             id # lastEvent'.id => dom'[id] = dom[id] ]_vars

(***************************************************************************)
(* Properties of the table-header controller.                              *)
(***************************************************************************)
Headers == {hdr[c] : c \in Cols} \cup orphans
TimersOf(h) == { t \in clock : t.iid = h.iid }

\* C6: once every request of the table headers has resolved, the view on
\* display is the one produced by the most recently issued request.
LatestRequestWins == (issued > 0 /\ xhrs = {}) => view = issued

\* C7: a debounce request is issued only when the delay has elapsed since
\* the last keystroke on its header, it carries the term as typed last, it
\* is the only one since that keystroke, and as long as no Enter follows a
\* keystroke exactly one request is either pending on a timer or issued.
DebounceIssuesOne ==
  /\ (lastReq # NULL /\ lastReq.src = "debounce") =>
       /\ lastReq.keyAge >= DEBOUNCE_DELAY
       /\ lastReq.term = lastReq.typed
       /\ lastReq.nth = 1
  /\ \A h \in Headers :
       (h.keyed /\ ~h.entered) => h.fired + Cardinality(TimersOf(h)) = 1

\* A debounce request was issued for a burst of two keystrokes less than
\* the delay apart, with the term left by the second.
DebounceWitness ==
  /\ lastReq # NULL
  /\ lastReq.src = "debounce"
  /\ lastReq.burst >= 2
  /\ lastReq.term = <<"l", "a">>

\* C8: Enter issues a request with the current term at once and leaves no
\* timer of its header pending, so no debounce request follows an Enter
\* without a new keystroke.
EnterCancelsTimer ==
  /\ (lastReq # NULL /\ lastReq.src = "enter") =>
       /\ lastReq.term = lastReq.typed
       /\ lastReq.rid = issued
  /\ (lastReq # NULL /\ lastReq.src = "debounce") => ~lastReq.entered
  /\ \A h \in Headers :
       h.entered => /\ TimersOf(h) = {}
                    /\ h.debounceTimer = 0
                    /\ h.currentRequest # 0

\* Enter was pressed while a timer was pending and the time of the
\* cancelled timer has passed since.
EnterWitness ==
  /\ lastReq # NULL
  /\ lastReq.src = "enter"
  /\ lastReq.pending
  /\ \E h \in Headers : h.iid = lastReq.iid /\ h.entered
                        /\ h.keyAge = DEBOUNCE_DELAY

(***************************************************************************)
(* Properties of the query endpoint.                                       *)
(***************************************************************************)
\* The sum of f over the products of the store, by index set.
RECURSIVE SumOver(_, _, _)
SumOver(store, I, field) ==
  IF I = {} THEN 0
  ELSE LET i == CHOOSE j \in I : TRUE
           p == store[i]
           x == CASE field = "quantity" -> p.quantity
                  [] field = "price" -> p.price
                  [] OTHER -> p.price * p.quantity
       IN x + SumOver(store, I \ {i}, field)

\* The aggregate over the products of store at the indices I.
Aggregate(store, I) ==
  [totalPrice |-> toFixed2(SumOver(store, I, "price"), 1),
   totalQuantity |-> SumOver(store, I, "quantity"),
   grandTotal |-> toFixed2(SumOver(store, I, "subtotal"), 1),
   averagePrice |-> IF I = {} THEN 0
                    ELSE toFixed2(SumOver(store, I, "price"), Cardinality(I)),
   productCount |-> Cardinality(I)]

\* The indices of the products whose name contains the search term.
Matching(store, term) ==
  { i \in 1..Len(store) :
      term = << >> \/ includes(toLowerCase(store[i].name), toLowerCase(term)) }

TotalsIndependentOfPage ==
  qres # NULL =>
    \A p \in 1..MaxPage, s \in 1..MaxPageSize :
      getTableData(db, [qpar EXCEPT !.page = p, !.pageSize = s]).totals
        = qres.totals

\* A query for the second of several pages.
PageWitness ==
  /\ qres # NULL
  /\ qres.pagination.totalPages > 1
  /\ qres.pagination.page = 2
  /\ Len(qres.data) > 0

\* C11: for a filtered set of N rows and page size S, totalPages is the
\* least number of pages of S rows that hold N rows, hasNext tells that the
\* page is before the last, hasPrev that it is after the first, and the
\* last page holds N - S * (totalPages - 1) rows.
PaginationArithmetic ==
  qres # NULL =>
    LET N == Cardinality(Matching(db, qpar.searchTerm))
        S == qpar.pageSize
        pg == qres.pagination
    IN /\ qres.total = N
       /\ pg.total = N
       /\ S * pg.totalPages >= N
       /\ S * (pg.totalPages - 1) < N \/ (N = 0 /\ pg.totalPages = 0)
       /\ pg.hasNext = (qpar.page < pg.totalPages)
       /\ pg.hasPrev = (qpar.page > 1)
       /\ (pg.totalPages >= 1 /\ qpar.page = pg.totalPages) =>
            Len(qres.data) = N - S * (pg.totalPages - 1)

\* A query for a last page that is not the first and is not full.
LastPageWitness ==
  /\ qres # NULL
  /\ qres.pagination.totalPages > 1
  /\ qpar.page = qres.pagination.totalPages
  /\ Len(qres.data) > 0
  /\ Len(qres.data) < qpar.pageSize
  /\ qres.pagination.hasPrev
  /\ ~qres.pagination.hasNext

(***************************************************************************)
(* Properties of getProducts.                                              *)
(***************************************************************************)
\* The indices of the products of the store that getProducts keeps for
\* the search of params: all of them unless a field and a term are given.
Kept(store, params) ==
  IF params.searchField # UNDEFINED /\ params.searchTerm # NoTerm
  THEN Matching(store, params.searchTerm)
  ELSE 1..Len(store)

\* The rows of the pages 1..n of getProducts for params, one after another.
RECURSIVE Pages(_, _, _)
Pages(store, params, n) ==
  IF n = 0 THEN << >>
  ELSE Pages(store, params, n - 1)
         \o getProducts(store, [params EXCEPT !.page = n]).data

\* Row a may stand before row b in the order of sort and sortDir.
InOrder(a, b, sort, sortDir) ==
  \/ ~HasKey(a, sort)
  \/ ~HasKey(b, sort)
  \/ IF sortDir = "asc"
     THEN ~Less(SortKey(b, sort), SortKey(a, sort), sort)
     ELSE ~Less(SortKey(a, sort), SortKey(b, sort), sort)

\* C12: the rows of page p are the rows at the ranks (p-1)*S+1 .. min(p*S, N)
\* of the filtered rows in the order of the sort key, and the pages
\* 1..totalPages hold every filtered row exactly once.
PageRanks ==
  pres # NULL =>
    LET N == Cardinality(Kept(db, ppar))
        S == ppar.pageSize
        all == Pages(db, ppar, Ceil(N, S))
        lo == (ppar.page - 1) * S + 1
        hi == IF ppar.page * S < N THEN ppar.page * S ELSE N
    IN /\ Len(all) = N
       /\ { all[i].id : i \in 1..N } = { db[j].id : j \in Kept(db, ppar) }
       /\ \A i \in 1..N : all[i] = db[FindIndex(db, all[i].id)]
       /\ \A i \in 1..(N - 1) :
            InOrder(all[i], all[i + 1], ppar.sort, ppar.sortDir)
       /\ pres.data = [k \in 1..(IF hi >= lo THEN hi - lo + 1 ELSE 0) |->
                         all[lo + k - 1]]

\* The second page of a store sorted by descending price, with a row on it.
PageRanksWitness ==
  /\ pres # NULL
  /\ ppar.page = 2
  /\ ppar.sort = "price"
  /\ ppar.sortDir = "desc"
  /\ Len(pres.data) > 0
  /\ pres.total > Len(pres.data)

\* C13: when the page is past the last page, getProducts returns no row
\* and total is still the number of filtered rows.
PagePastEnd ==
  (pres # NULL /\ ppar.page > Ceil(Cardinality(Kept(db, ppar)), ppar.pageSize))
    => /\ pres.data = << >>
       /\ pres.total = Cardinality(Kept(db, ppar))

\* A call for a page past the last page of a filtered set that has rows.
PagePastEndWitness ==
  /\ pres # NULL
  /\ pres.total > 0
  /\ (ppar.page - 1) * ppar.pageSize >= pres.total
  /\ pres.data = << >>

\* The ids of the rows getProducts returns for params over all its pages.
ReturnedIds(store, params) ==
  LET res == getProducts(store, params)
      all == Pages(store, params, Ceil(res.total, params.pageSize))
  IN { all[i].id : i \in 1..Len(all) }

\* C14: with an empty search term the rows returned are those of the store;
\* with a term and a search field they are the products whose value of that
\* field contains the term, letter case aside.
FilterBySearchField ==
  pres # NULL =>
    IF ppar.searchTerm = NoTerm
    THEN ReturnedIds(db, ppar) = { db[i].id : i \in 1..Len(db) }
    ELSE ppar.searchField # UNDEFINED =>
           ReturnedIds(db, ppar) =
             { db[i].id : i \in
                 { j \in 1..Len(db) :
                     includes(toLowerCase(db[j][ppar.searchField]),
                              toLowerCase(ppar.searchTerm)) } }

\* The sort key of params has a value on every kept row of the store and
\* no two kept rows have the same value.
DistinctKeys(store, params) ==
  /\ \A i \in Kept(store, params) : HasKey(store[i], params.sort)
  /\ \A i, j \in Kept(store, params) :
       i # j => SortKey(store[i], params.sort) # SortKey(store[j], params.sort)

\* Every row getProducts returns for params, over all its pages in order.
FullOrder(store, params) ==
  Pages(store, params,
        Ceil(Cardinality(Kept(store, params)), params.pageSize))

Reverse(s) == [i \in 1..Len(s) |-> s[Len(s) + 1 - i]]

\* C15: when the values of the sort key are pairwise distinct, the order of
\* the rows for sortDir desc is the reverse of their order for sortDir asc.
DescReversesAsc ==
  (pres # NULL /\ DistinctKeys(db, ppar)) =>
    FullOrder(db, [ppar EXCEPT !.sortDir = "desc"])
      = Reverse(FullOrder(db, [ppar EXCEPT !.sortDir = "asc"]))

\* A descending sort by price of two or more rows of distinct prices that
\* the store does not hold in that order.
DescWitness ==
  /\ pres # NULL
  /\ ppar.sort = "price"
  /\ ppar.sortDir = "desc"
  /\ ppar.page = 1
  /\ DistinctKeys(db, ppar)
  /\ Cardinality(Kept(db, ppar)) >= 2
  /\ pres.data[1].id # 1

SubtotalOrder ==
  (qres # NULL /\ qpar.sort = "subtotal") =>
    \A i \in 1..(Len(qres.data) - 1) :
      InOrder(qres.data[i], qres.data[i + 1], "subtotal", qpar.sortDir)

(***************************************************************************)
(* Properties of the field-update route.                                   *)
(***************************************************************************)
\* ValidationService.sanitizePrice: Math.round(price * 100) / 100, on a
\* price in thousandths. The update route never calls it.
sanitizePrice(p) == ((p + 5) \div 10) * 10

\* The last call named an existing product, the price field and a price
\* of the valid range other than the forbidden price.
ValidPriceCall ==
  /\ ucall # NULL
  /\ ucall.field = "price"
  /\ FindIndex(ucall.before, ucall.id) # 0
  /\ ucall.value # NaN
  /\ ucall.value >= MIN_PRICE
  /\ ucall.value <= MAX_PRICE
  /\ ucall.value # FORBIDDEN_PRICE

\* C18: an update of the price of an existing product to a valid price
\* other than the forbidden price succeeds and the stored price is that
\* price rounded to 2 decimals.
ValidPriceStored ==
  ValidPriceCall =>
    /\ ures.status = 200
    /\ db[FindIndex(db, ucall.id)].price = sanitizePrice(ucall.value)

\* The last call asked for the forbidden price.
SentinelCall ==
  /\ ucall # NULL
  /\ ucall.field = "price"
  /\ ucall.value = FORBIDDEN_PRICE

\* C19: an update of a price to the forbidden price always fails with the
\* simulated server error, whatever the id, and leaves the store as it
\* was, so no product's price becomes the forbidden price by an update.
SentinelFails ==
  SentinelCall =>
    /\ ures.status = 500
    /\ ures.error = "simulated"
    /\ db = ucall.before
    /\ \A i \in 1..Len(db) : db[i].price # FORBIDDEN_PRICE

SentinelWitness ==
  /\ SentinelCall
  /\ FindIndex(ucall.before, ucall.id) # 0
  /\ ures.status = 500

\* The least and the greatest value the store accepts for field f.
MinOf(f) == IF f = "price" THEN MIN_PRICE ELSE Num(MIN_QUANTITY)
MaxOf(f) == IF f = "price" THEN MAX_PRICE ELSE Num(MAX_QUANTITY)

\* The value of the last call is no number or lies outside the range of
\* its field.
InvalidValueCall ==
  /\ ucall # NULL
  /\ \/ isNaN(ucall.value)
     \/ Lt(ucall.value, MinOf(ucall.field))
     \/ Lt(MaxOf(ucall.field), ucall.value)

FractionalQuantityCall ==
  /\ ucall # NULL
  /\ ucall.field = "quantity"
  /\ FindIndex(ucall.before, ucall.id) # 0
  /\ ucall.value # NaN
  /\ ucall.value >= MinOf("quantity")
  /\ ucall.value <= MaxOf("quantity")
  /\ ucall.value % 1000 # 0

\* C22: an update of the quantity of an existing product to a fractional
\* quantity of the valid range is accepted and the stored quantity is the
\* greatest whole number not above it.
FractionalQuantityFloored ==
  FractionalQuantityCall =>
    /\ ures.status = 200
    /\ LET q == db[FindIndex(db, ucall.id)].quantity
       IN Num(q) <= ucall.value /\ ucall.value < Num(q + 1)

FractionalQuantityWitness ==
  /\ FractionalQuantityCall
  /\ ucall.value = 2500
  /\ db[FindIndex(db, ucall.id)].quantity = 2
  /\ ucall.before[FindIndex(db, ucall.id)].quantity # 2

(***************************************************************************)
(* Properties of the record store.                                         *)
(***************************************************************************)
\* The ids of the products of a store, in store order.
IdsOf(store) == [i \in 1..Len(store) |-> store[i].id]

\* The last call was a write that named an id no product of the store had.
UnknownIdCall ==
  /\ scall # NULL
  /\ scall.op \in {"updateProductField", "deleteProduct"}
  /\ FindIndex(scall.before, scall.id) = 0

Remaining(store) == { i \in 1..Len(store) : store[i].id \notin gone }

\* No product of the store carries no number.
AllNumbers(store) ==
  \A i \in 1..Len(store) : store[i].price # NaN /\ store[i].quantity # NaN

\* C23: once deleteProduct has removed a product, no later getProducts or
\* getProductById returns it and getAllTotals does not count it, whatever
\* is called in between; the delete removes that one product and leaves
\* the others in their order.
DeleteIsPermanent ==
  /\ \A i \in 1..Len(db) : db[i].id \notin gone
  /\ sret # NULL =>
       /\ \A k \in 1..Len(sret.rows) : sret.rows[k].id \notin gone
       /\ scall.op = "getAllTotals" =>
            /\ sret.totals.productCount = Cardinality(Remaining(scall.before))
            /\ AllNumbers(scall.before) =>
                 sret.totals = Aggregate(scall.before, Remaining(scall.before))
  /\ (scall # NULL /\ scall.op = "deleteProduct" /\ sret.ok) =>
       \E i \in 1..Len(scall.before) :
         /\ scall.before[i].id = scall.id
         /\ db = SubSeq(scall.before, 1, i - 1)
                   \o SubSeq(scall.before, i + 1, Len(scall.before))

\* A read that asks for a deleted product, after a write that followed the
\* delete.
DeleteWitness ==
  /\ scall # NULL
  /\ scall.op = "getProductById"
  /\ scall.id \in gone
  /\ sret.rows = << >>
  /\ Len(db) = 1
  /\ db \notin { SubSeq(s, k, k) : s \in seedProducts(Cardinality(EditIds)),
                                   k \in 1..Cardinality(EditIds) }

\* C24: in every state of the store, after any calls of updateProductField
\* and deleteProduct, returned or thrown, every product has a price that
\* is a number not below 0 and a quantity that is a whole number not
\* below 0.
EntitiesValid ==
  \A i \in 1..Len(db) :
    /\ db[i].price # NaN /\ db[i].price >= 0
    /\ db[i].quantity # NaN /\ db[i].quantity >= 0

\* The sequence s without its elements equal to x.
RECURSIVE Without(_, _)
Without(s, x) ==
  IF s = << >> THEN << >>
  ELSE IF Head(s) = x THEN Without(Tail(s), x)
  ELSE << Head(s) >> \o Without(Tail(s), x)

\* C25: in every state the ids of the store are pairwise distinct and are
\* seeded ids; no call adds a product or changes an id, and the number of
\* products goes down only by a successful delete, by one.
IdsStable ==
  /\ \A i, j \in 1..Len(db) : db[i].id = db[j].id => i = j
  /\ \A i \in 1..Len(db) : db[i].id \in EditIds
  /\ Len(db) + Cardinality(gone) = Cardinality(EditIds)
  /\ scall # NULL =>
       IF scall.op = "deleteProduct" /\ sret.ok
       THEN /\ Len(db) = Len(scall.before) - 1
            /\ IdsOf(db) = Without(IdsOf(scall.before), scall.id)
       ELSE IdsOf(db) = IdsOf(scall.before)

IdsWitness ==
  /\ scall # NULL
  /\ scall.op = "updateProductField"
  /\ sret.ok
  /\ gone # {}
  /\ Len(db) = 1

(***************************************************************************)
(* Properties of the gestures on an editable cell.                         *)
(***************************************************************************)
\* The cells of the page.
Cells == EditIds \X Fields

\* The rows with cell (id, f) back in view mode and its input holding v.
Viewing(rows, id, f, v) ==
  [rows EXCEPT ![id].cell[f].editing = FALSE, ![id].cell[f].value = v]

ShownWith(rows, id, f, v) ==
  [i \in 1..Cardinality(DOMAIN rows) |->
     [price |-> IF i = id /\ f = "price" THEN v ELSE rows[i].dataPrice,
      quantity |-> IF i = id /\ f = "quantity" THEN v
                   ELSE rows[i].dataQuantity]]

\* C28: from the commit of a changed value until a response arrives, the
\* cell shows the value tagged optimistic, the subtotal of the row shows
\* the product recomputed with the value, tagged too, and the totals of
\* the page show the totals recomputed with the value.
OptimisticDisplay ==
  (lastEvent.kind = "commit" /\ lastEvent.rid # 0) =>
    LET id == lastEvent.id
        f == lastEvent.field
        tr == dom[id]
        c == tr.cell[f]
        shown == ShownWith(dom, id, f, c.value)
    IN /\ c.opt
       /\ c.text = CellText(f, c.value)
       /\ tr.sub.opt
       /\ tr.sub.text = formatCurrency(shown[id].price * shown[id].quantity)
       /\ totalsTag
       /\ totalsText = getTotals(shown)

\* The other sort direction.
Flip(dir) == IF dir = "asc" THEN "desc" ELSE "asc"

\* A step in which a sort link is clicked.
SortClick == lastReq' # lastReq /\ lastReq'.src = "sort"

\* The request a sort click asks for: the header's field, the direction
\* flipped when the field is the current sort field and asc otherwise.
SortClickFlips ==
  SortClick =>
    LET r == CHOOSE x \in xhrs' : x.rid = issued'
        h == hdr[r.field]
    IN /\ r.path.sortBy = r.field
       /\ r.path.sortOrder = IF h.sortBy = r.field THEN Flip(h.sortDir)
                             ELSE "asc"

\* The second of two consecutive clicks on one field undoes the first.
TwoClicksReturn ==
  (SortClick /\ lastReq # NULL /\ lastReq.src = "sort"
             /\ lastReq.field = lastReq'.field) =>
    lastReq'.order = Flip(lastReq.order)

\* C29: a sort click requests sortBy = the header's field, with sortDir
\* flipped when the field is the current sort field and asc when it is not,
\* and the second of two consecutive clicks on one field requests the
\* direction opposite to the first click's, returning to the first direction.
SortClickToggles == [][SortClickFlips /\ TwoClicksReturn]_vars

\* The response of the request that wrote the token is inserted as the view.
TokenViewInserted == view' = lastReq.rid /\ view # lastReq.rid

\* C30: the focus token written when a header issues a request is consumed
\* by the view replacement that request produces and by nothing earlier: it
\* leaves window.__th_focus only in the step that inserts that view, and
\* after that step it is cleared in every case.
TokenConsumedByItsView ==
  [][ /\ (thFocus # NULL /\ thFocus' = NULL) => TokenViewInserted
      /\ (thFocus # NULL /\ TokenViewInserted) => thFocus' = NULL ]_vars

OnePendingTimer ==
  \A h \in Headers :
    /\ Cardinality(TimersOf(h)) <= 1
    /\ h.debounceTimer # 0 => \E t \in TimersOf(h) : t.id = h.debounceTimer
    /\ h.debounceTimer = 0 => TimersOf(h) = {}
    /\ h.entered => TimersOf(h) = {}

\* A second keystroke within the delay replaced the timer of the first.
OneTimerWitness ==
  /\ \E h \in Headers : h.burst >= 2 /\ Cardinality(TimersOf(h)) = 1
  /\ keys = 2

\* Both fields of row id have a request of their own that has not arrived.
BothPending(id) ==
  \A f \in Fields : /\ dom[id].cell[f].opt
                    /\ \E r \in net : r.id = id /\ r.field = f

\* C33: when the price and the quantity of one row are both committed
\* before either response arrives, the subtotal shown after the second
\* commit is the candidate price times the candidate quantity.
SubtotalFromBothFields ==
  \A id \in DOMAIN dom :
    (lastEvent.kind = "commit" /\ lastEvent.rid # 0 /\ lastEvent.id = id
       /\ BothPending(id)) =>
      dom[id].sub.text = formatCurrency(dom[id].cell["price"].value
                                          * dom[id].cell["quantity"].value)

(***************************************************************************)
(* Request URLs: buildUrl (url-utils.ts) and parseApiParams (api-utils.ts). *)
(* A URL is the sequence of its characters.  A number that is read from or *)
(* written to a URL is kept as its decimal numeral, a sign and the digits  *)
(* without leading zeros, so that no width limits it; no digits is NaN.    *)
(***************************************************************************)
DigitChars == << "0", "1", "2", "3", "4", "5", "6", "7", "8", "9" >>

NotANumber == [neg |-> FALSE, digits |-> << >>]

\* The numeral of the natural number n.
Numeral(n) ==
  LET RECURSIVE DigitsOf(_)
      DigitsOf(k) == IF k < 10 THEN << DigitChars[k + 1] >>
                     ELSE Append(DigitsOf(k \div 10), DigitChars[(k % 10) + 1])
  IN [neg |-> FALSE, digits |-> DigitsOf(n)]

\* The words the URLs are made of, as character sequences.
Text(w) ==
  CASE w = "page" -> << "p", "a", "g", "e" >>
    [] w = "limit" -> << "l", "i", "m", "i", "t" >>
    [] w = "sortBy" -> << "s", "o", "r", "t", "B", "y" >>
    [] w = "sortOrder" -> << "s", "o", "r", "t", "O", "r", "d", "e", "r" >>
    [] w = "searchTerm" ->
         << "s", "e", "a", "r", "c", "h", "T", "e", "r", "m" >>
    [] w = "searchField" ->
         << "s", "e", "a", "r", "c", "h", "F", "i", "e", "l", "d" >>
    [] w = "id" -> << "i", "d" >>
    [] w = "name" -> << "n", "a", "m", "e" >>
    [] w = "price" -> << "p", "r", "i", "c", "e" >>
    [] w = "asc" -> << "a", "s", "c" >>
    [] w = "desc" -> << "d", "e", "s", "c" >>
    [] w = "abc" -> << "a", "b", "c" >>
    [] w = "old" -> << "o", "l", "d" >>
    [] OTHER -> << >>

\* parseInt(s, 10): leading white space is skipped, a sign is read, then
\* the digits up to the first character that is none; no digit gives NaN.
parseInt(s) ==
  LET RECURSIVE SkipWhile(_, _)
      SkipWhile(x, cs) ==
        IF x # << >> /\ Head(x) \in cs THEN SkipWhile(Tail(x), cs) ELSE x
      RECURSIVE TakeWhile(_, _)
      TakeWhile(x, cs) ==
        IF x # << >> /\ Head(x) \in cs
        THEN << Head(x) >> \o TakeWhile(Tail(x), cs)
        ELSE << >>
      t == SkipWhile(s, {" "})
      signed == t # << >> /\ Head(t) \in {"+", "-"}
      body == IF signed THEN Tail(t) ELSE t
      ds == TakeWhile(body, { DigitChars[k] : k \in 1..10 })
      nz == SkipWhile(ds, {"0"})
      n == IF nz = << >> THEN << "0" >> ELSE nz
  IN IF ds = << >> THEN NotANumber
     ELSE [neg |-> signed /\ Head(t) = "-" /\ n # << "0" >>, digits |-> n]

\* a < b on two numbers, neither of them NaN.
NumLess(a, b) ==
  LET Val(c) == CHOOSE k \in 0..9 : DigitChars[k + 1] = c
      RECURSIVE DigitsLess(_, _)
      DigitsLess(x, y) ==
        IF Len(x) # Len(y) THEN Len(x) < Len(y)
        ELSE IF x = << >> THEN FALSE
        ELSE IF Head(x) # Head(y) THEN Val(Head(x)) < Val(Head(y))
        ELSE DigitsLess(Tail(x), Tail(y))
  IN IF a.neg /\ ~b.neg THEN TRUE
     ELSE IF ~a.neg /\ b.neg THEN FALSE
     ELSE IF a.neg THEN DigitsLess(b.digits, a.digits)
     ELSE DigitsLess(a.digits, b.digits)

\* Math.max and Math.min: NaN if an argument is NaN.
MathMax(a, b) ==
  IF a = NotANumber \/ b = NotANumber THEN NotANumber
  ELSE IF NumLess(a, b) THEN b ELSE a

MathMin(a, b) ==
  IF a = NotANumber \/ b = NotANumber THEN NotANumber
  ELSE IF NumLess(a, b) THEN a ELSE b

\* String(n) of a number: an integer of up to 21 digits is written out,
\* a larger one in exponent notation, mantissa digits then e+exponent.
String(n) ==
  IF n = NotANumber THEN << "N", "a", "N" >>
  ELSE LET sign == IF n.neg THEN << "-" >> ELSE << >>
           ds == n.digits
           k == Len(ds)
           last == CHOOSE i \in 1..k :
                     /\ ds[i] # "0" \/ i = 1
                     /\ \A j \in (i + 1)..k : ds[j] = "0"
           frac == SubSeq(ds, 2, last)
       IN IF k <= 21 THEN sign \o ds
          ELSE sign \o << ds[1] >>
                    \o (IF frac = << >> THEN << >> ELSE << "." >> \o frac)
                    \o << "e", "+" >> \o Numeral(k - 1).digits

\* The application/x-www-form-urlencoded form of a text: letters, digits
\* and * - . _ stay, a space becomes +, the rest a percent code.
RECURSIVE Encode(_)
Encode(s) ==
  LET c == Head(s)
      code == CASE c = " " -> << "+" >>
                [] c = "+" -> << "%", "2", "B" >>
                [] c = "&" -> << "%", "2", "6" >>
                [] c = "%" -> << "%", "2", "5" >>
                [] c = "=" -> << "%", "3", "D" >>
                [] c = "#" -> << "%", "2", "3" >>
                [] c = "?" -> << "%", "3", "F" >>
                [] OTHER -> << c >>
  IN IF s = << >> THEN << >> ELSE code \o Encode(Tail(s))

\* The form decoding of a name or a value: + is a space, a percent code is
\* its character, a % that starts no code stays.
RECURSIVE Decode(_)
Decode(s) ==
  LET h == s[2]
      l == s[3]
      char == CASE h = "2" /\ l = "B" -> << "+" >>
                [] h = "2" /\ l = "6" -> << "&" >>
                [] h = "2" /\ l = "5" -> << "%" >>
                [] h = "3" /\ l = "D" -> << "=" >>
                [] h = "2" /\ l = "3" -> << "#" >>
                [] h = "3" /\ l = "F" -> << "?" >>
                [] h = "2" /\ l = "0" -> << " " >>
                [] OTHER -> << >>
  IN IF s = << >> THEN << >>
     ELSE IF Head(s) = "+" THEN << " " >> \o Decode(Tail(s))
     ELSE IF Head(s) = "%" /\ Len(s) >= 3 /\ char # << >>
          THEN char \o Decode(SubSeq(s, 4, Len(s)))
     ELSE << Head(s) >> \o Decode(Tail(s))

\* s cut at every character sep.
RECURSIVE Split(_, _)
Split(s, sep) ==
  IF \A i \in 1..Len(s) : s[i] # sep THEN << s >>
  ELSE LET k == CHOOSE i \in 1..Len(s) :
                  s[i] = sep /\ \A j \in 1..(i - 1) : s[j] # sep
       IN << SubSeq(s, 1, k - 1) >> \o Split(SubSeq(s, k + 1, Len(s)), sep)

\* new URL(url).searchParams: the pairs of name and value of the query,
\* which is what follows the first ? of the URL.
searchParams(url) ==
  LET parts == Split(url, "?")
      query == IF Len(parts) = 1 THEN << >>
               ELSE SubSeq(url, Len(parts[1]) + 2, Len(url))
      pieces == SelectSeq(Split(query, "&"), LAMBDA x : x # << >>)
      Pair(piece) ==
        LET kv == Split(piece, "=")
        IN << Decode(kv[1]),
              Decode(SubSeq(piece, Len(kv[1]) + 2, Len(piece))) >>
  IN [i \in 1..Len(pieces) |-> Pair(pieces[i])]

\* searchParams.get(name) || fallback: the first value of the name, or the
\* fallback when the name is absent or its value is empty.
GetOr(params, name, fallback) ==
  LET hits == SelectSeq(params, LAMBDA x : x[1] = Text(name))
  IN IF hits = << >> \/ hits[1][2] = << >> THEN fallback ELSE hits[1][2]

parseApiParams(url) ==
  LET q == searchParams(url)
  IN [page |-> MathMax(Numeral(1), parseInt(GetOr(q, "page", << "1" >>))),
      pageSize |-> MathMax(Numeral(1), MathMin(Numeral(100),
                     parseInt(GetOr(q, "limit",
                                    String(Numeral(DEFAULT_PAGE_SIZE)))))),
      sort |-> GetOr(q, "sortBy", Text("id")),
      sortDir |-> GetOr(q, "sortOrder", Text("asc")),
      searchTerm |-> GetOr(q, "searchTerm", << >>),
      searchField |-> GetOr(q, "searchField", Text("name"))]

\* searchParams.set(name, value): the first pair of the name takes the
\* value and the other pairs of the name go; a new name is appended.
Set(params, name, value) ==
  LET idx == { i \in 1..Len(params) : params[i][1] = Text(name) }
  IN IF idx = {} THEN Append(params, << Text(name), value >>)
     ELSE LET first == CHOOSE i \in idx : \A j \in idx : i <= j
              kept == { i \in 1..Len(params) : i \notin idx \/ i = first }
              Nth(n) == CHOOSE i \in kept :
                          Cardinality({ j \in kept : j < i }) = n - 1
          IN [n \in 1..Cardinality(kept) |->
                IF Nth(n) = first THEN << Text(name), value >>
                ELSE params[Nth(n)]]

\* The pieces joined by the character sep.
RECURSIVE Join(_, _)
Join(pieces, sep) ==
  IF pieces = << >> THEN << >>
  ELSE IF Len(pieces) = 1 THEN pieces[1]
  ELSE pieces[1] \o << sep >> \o Join(Tail(pieces), sep)

\* buildUrl(params) on a page whose window.location.href is href: every
\* parameter is set on the query of the current URL, and the result is
\* url.pathname + url.search, the pairs written name=value joined by &.
buildUrl(href, params) ==
  LET q0 == searchParams(href)
      q1 == Set(q0, "sortBy", params.sortBy)
      q2 == Set(q1, "sortOrder", params.sortOrder)
      q3 == Set(q2, "page", String(params.page))
      q4 == Set(q3, "limit", String(params.limit))
      q5 == Set(q4, "searchTerm", params.searchTerm)
      search == Join([i \in 1..Len(q5) |->
                        Encode(q5[i][1]) \o << "=" >> \o Encode(q5[i][2])],
                     "&")
  IN Split(href, "?")[1] \o << "?" >> \o search

\* The request URLs a client can write: the page and the limit absent,
\* empty, no number, zero, negative, a number, a number followed by other
\* text; the sort field absent or given.
RequestUrls ==
  LET Piece(name, text) == Text(name) \o << "=" >> \o text
      pages == { << >> } \cup
               { Piece("page", t) :
                   t \in { << >>, Text("abc"), << "0" >>, << "-", "3" >>,
                           << "7" >>, << "1", ".", "5" >>,
                           << "1", "2", "a" >>, << " ", "2" >> } }
      limits == { << >> } \cup
                { Piece("limit", t) :
                    t \in { << >>, Text("abc"), << "0" >>, << "-", "5" >>,
                            << "5", "0" >>, << "1", "0", "0" >>,
                            << "1", "0", "1" >>, << "2", ".", "9" >> } }
      sorts == { << >>, Piece("sortBy", Text("price")) }
      Url(pieces) == IF pieces = << >> THEN << "/" >>
                     ELSE << "/", "?" >> \o Join(pieces, "&")
  IN { Url(SelectSeq(<< p, l, o >>, LAMBDA x : x # << >>)) :
         p \in pages, l \in limits, o \in sorts }

\* The query parameters a caller hands to buildUrl; the largest page is
\* 10^21, the least integer String writes in exponent notation.
UrlParams ==
  [page : { Numeral(1), Numeral(2), Numeral(37),
            [neg |-> FALSE, digits |-> << "1" >> \o [i \in 1..21 |-> "0"]] },
   limit : { Numeral(1), Numeral(10), Numeral(100) },
   sortBy : { Text("id"), Text("name"), Text("price") },
   sortOrder : { Text("asc"), Text("desc") },
   searchTerm : { << >>, << "a" >>, << "a", " ", "b" >>, << "a", "+", "b" >>,
                  << "a", "&", "b", "=", "c" >>, << "5", "0", "%" >>,
                  << " ", "a" >>, << "%", "2", "B" >> }]

\* window.location.href when buildUrl is called.
Hrefs ==
  { << "/" >>,
    << "/", "?" >> \o
      Join(<< Text("page") \o << "=", "9" >>,
              Text("searchTerm") \o << "=" >> \o Text("old"),
              Text("searchField") \o << "=" >> \o Text("price"),
              Text("page") \o << "=", "3" >> >>, "&") }

\* The server parses the request url, the one request of a behaviour.
ParseApiParams(url) ==
  /\ ucall = NULL
  /\ ucall' = [op |-> "parseApiParams", url |-> url]
  /\ ures' = parseApiParams(url)
  /\ UNCHANGED << db, ucount, scall, sret, gone, queryVars, headerVars,
                  editVars >>

\* A page at href builds the URL of params and the server parses it.
BuildUrl(href, params) ==
  /\ ucall = NULL
  /\ ucall' = [op |-> "buildUrl", href |-> href, params |-> params,
               url |-> buildUrl(href, params)]
  /\ ures' = parseApiParams(buildUrl(href, params))
  /\ UNCHANGED << db, ucount, scall, sret, gone, queryVars, headerVars,
                  editVars >>

UrlNext ==
  \/ \E url \in RequestUrls : ParseApiParams(url)
  \/ \E href \in Hrefs, params \in UrlParams : BuildUrl(href, params)

SpecUrl == ValidateInit /\ [][UrlNext]_vars

(***************************************************************************)
(* Properties of the validation service.                                   *)
(***************************************************************************)
\* validatePrice has been called.
PriceValidated == ucall # NULL /\ ucall.op = "validatePrice"

\* C34: validatePrice reports at most one error per value; a value that is
\* no number or lies outside the range is rejected with the error of that
\* check, and the demo error is reported only for a number inside the range.
OneErrorPerPrice ==
  PriceValidated =>
    LET v == ucall.value
        errors == ures.errors
    IN /\ Len(errors) <= 1
       /\ ures.isValid = (Len(errors) = 0)
       /\ isNaN(v) => errors = << "number" >>
       /\ (~isNaN(v) /\ v < ValidationService_MIN_PRICE) => errors = << "min" >>
       /\ (~isNaN(v) /\ v > ValidationService_MAX_PRICE) => errors = << "max" >>
       /\ errors = << "demo" >> =>
            /\ ~isNaN(v)
            /\ v >= ValidationService_MIN_PRICE
            /\ v <= ValidationService_MAX_PRICE
            /\ v = FORBIDDEN_PRICE

\* The demo price was validated and got the demo error alone.
DemoErrorWitness ==
  /\ PriceValidated
  /\ ucall.value = FORBIDDEN_PRICE
  /\ ures.errors = << "demo" >>

(***************************************************************************)
(* Properties of the request URLs.                                         *)
(***************************************************************************)
\* A URL has been built by buildUrl and parsed; a URL has been parsed.
UrlBuilt == ucall # NULL /\ ucall.op = "buildUrl"
UrlParsed == ucall # NULL /\ ucall.op = "parseApiParams"

\* C35: parsing the URL buildUrl makes of query parameters with page >= 1
\* and 1 <= limit <= 100 gives back the same page, page size, sort field,
\* sort direction and search term.
UrlRoundTrip ==
  UrlBuilt =>
    /\ ures.page = ucall.params.page
    /\ ures.pageSize = ucall.params.limit
    /\ ures.sort = ucall.params.sortBy
    /\ ures.sortDir = ucall.params.sortOrder
    /\ ures.searchTerm = ucall.params.searchTerm

\* n is an integer with lo <= n <= hi.
Within(n, lo, hi) ==
  /\ n # NotANumber
  /\ ~NumLess(n, Numeral(lo))
  /\ ~NumLess(Numeral(hi), n)

\* The request has no parameter of the name.
Absent(url, name) == \A i \in DOMAIN searchParams(url) :
                       searchParams(url)[i][1] # Text(name)

\* C36: for every request URL parseApiParams returns a page that is an
\* integer >= 1 and a page size that is an integer from 1 to 100, and the
\* defaults 1 and 10 for a parameter that is absent.
ParsedPageInRange ==
  UrlParsed =>
    /\ ures.page # NotANumber
    /\ ~NumLess(ures.page, Numeral(1))
    /\ Within(ures.pageSize, 1, 100)
    /\ Absent(ucall.url, "page") => ures.page = Numeral(DEFAULT_PAGE)
    /\ Absent(ucall.url, "limit") => ures.pageSize = Numeral(DEFAULT_PAGE_SIZE)

(***************************************************************************)
(* Frame properties of the record store.                                   *)
(***************************************************************************)
\* The last call of the store was a write / a read.
WriteCall ==
  scall # NULL /\ scall.op \in {"updateProductField", "deleteProduct"}

\* C37: a call of updateProductField or deleteProduct that throws leaves
\* the store exactly as it was before the call.
FailedWriteLeavesStore == (WriteCall /\ ~sret.ok) => db = scall.before

\* C38: a call of updateProductField that returns has changed only the
\* named field of the product with the id: its other fields, the other
\* products and the order of the store are as before.
UpdateChangesOneField ==
  (scall # NULL /\ scall.op = "updateProductField" /\ sret.ok) =>
    /\ Len(db) = Len(scall.before)
    /\ \A i \in 1..Len(db) :
         /\ db[i].id # scall.id => db[i] = scall.before[i]
         /\ db[i] = [scall.before[i] EXCEPT ![scall.field] = db[i][scall.field]]

\* An update of a store of several products returned and changed a value.
UpdateFrameWitness ==
  /\ scall # NULL
  /\ scall.op = "updateProductField"
  /\ sret.ok
  /\ Len(db) >= 2
  /\ db # scall.before

ReadOps == {"getProducts", "getTableData", "getAllTotals", "getProductById"}

\* C39: getProducts, getTotals, getAllTotals and getTableData leave the
\* contents and the order of the store as they were, and a query repeated
\* with no write in between returns what it returned before.
ReadsLeaveStore ==
  [][ /\ scall'.op \in ReadOps => db' = db
      /\ (scall # NULL /\ scall.op \in ReadOps /\ scall' = scall) =>
           sret' = sret ]_vars

\* A descending query returned the products of a store of several products
\* in another order than the store holds them, and the store is as before.
ReadWitness ==
  /\ scall # NULL
  /\ scall.op \in {"getProducts", "getTableData"}
  /\ scall.params.sortDir = "desc"
  /\ Len(sret.rows) >= 2
  /\ sret.rows # db
  /\ db = scall.before

====
